---- MODULE Spec2Model ----
(***************************************************************************)
(* AirForceNone: the identification, deduplication and classification      *)
(* pipeline of poc_tracker.py (variant 1) and poc_tracker2.py (variant 2). *)
(*                                                                         *)
(* Python values are modelled as follows.  A str is the sequence of its    *)
(* characters (<<"F","A","F">> is "FAF"), so that lower(), upper(),        *)
(* strip() and startswith() are computed character by character.  A value  *)
(* that may be a number, a string or None (lat, lon, alt_baro, gs) is      *)
(* tagged: Num(n), Str(s), None.  Coordinates are in thousandths of a      *)
(* degree (Num(50001) is 50.001).  A dict is the sequence of its           *)
(* <<key, value>> items in insertion order, keys distinct.  A raw track    *)
(* (one JSON object of "ac") is a function whose DOMAIN is the set of keys *)
(* the object carries.  Time is in ticks, TicksPerUnit ticks to one unit   *)
(* of time.time().                                                         *)
(***************************************************************************)
EXTENDS Integers, Sequences, FiniteSets, TLC

\* ------------------------------------------------------------------ bounds

MaxTracks == 2          \* tracks in one snapshot
MaxGeoCalls == 3        \* direct get_location / parse_aircraft calls (SpecGeo)
MaxCalls == 3           \* fetch calls on one client (SpecRate)
MaxOversleep == 1       \* ticks time.sleep may overshoot
MaxTime == 11           \* last tick of the clock
StartTime == 5          \* time.time() when the client is constructed
TicksPerUnit == 2       \* clock resolution
MaxRows == 2            \* rows of the catalog file
MaxSort == 3            \* tracks in a snapshot whose entries are sorted (SpecSort)
MaxPolls == 2           \* poll cycles of one process (SpecPoll)
NumThreads == 2         \* threads that share one client (SpecThreads)

\* ----------------------------------------------------------- Python values

None == <<"None">>
Num(n) == <<"num", n>>
Str(s) == <<"str", s>>

\* bool(v) for the tagged values: None, 0 and "" are falsy.
Truthy(v) == v # None /\ v # Num(0) /\ v # Str(<<>>)

\* dict.get(key, default) on a raw JSON object.
Get(d, k, default) == IF k \in DOMAIN d THEN d[k] ELSE default

UPPERCASE ==
  <<"A", "B", "C", "D", "E", "F", "G", "H", "I", "J", "K", "L", "M",
    "N", "O", "P", "Q", "R", "S", "T", "U", "V", "W", "X", "Y", "Z">>
LOWERCASE ==
  <<"a", "b", "c", "d", "e", "f", "g", "h", "i", "j", "k", "l", "m",
    "n", "o", "p", "q", "r", "s", "t", "u", "v", "w", "x", "y", "z">>
WHITESPACE == {" ", "\t", "\n", "\r"}

LowerChar(c) ==
  IF \E i \in 1..26 : UPPERCASE[i] = c
  THEN LOWERCASE[CHOOSE i \in 1..26 : UPPERCASE[i] = c] ELSE c
UpperChar(c) ==
  IF \E i \in 1..26 : LOWERCASE[i] = c
  THEN UPPERCASE[CHOOSE i \in 1..26 : LOWERCASE[i] = c] ELSE c

\* str.lower(), str.upper()
Lower(s) == [i \in 1..Len(s) |-> LowerChar(s[i])]
Upper(s) == [i \in 1..Len(s) |-> UpperChar(s[i])]

\* str.strip(): leading and trailing whitespace removed.
Strip(s) ==
  LET keep == {i \in 1..Len(s) : s[i] \notin WHITESPACE}
  IN IF keep = {} THEN <<>>
     ELSE LET a == CHOOSE i \in keep : \A j \in keep : i <= j
              b == CHOOSE i \in keep : \A j \in keep : j <= i
          IN SubSeq(s, a, b)

\* str.startswith(prefix)
StartsWith(s, prefix) ==
  /\ Len(prefix) <= Len(s)
  /\ \A i \in 1..Len(prefix) : s[i] = prefix[i]

\* A dict literal { k1: v1, k2: v2, ... }: a key written again keeps the
\* position of its first occurrence and takes the value written last.
DictLiteral(items) ==
  LET IsFirst(i) == \A j \in 1..(i - 1) : items[j][1] # items[i][1]
      firsts == SelectSeq([i \in 1..Len(items) |-> i], IsFirst)
      last(i) == CHOOSE j \in 1..Len(items) :
                   /\ items[j][1] = items[i][1]
                   /\ \A l \in (j + 1)..Len(items) : items[l][1] # items[i][1]
  IN SubSeq([k \in 1..Len(firsts) |->
               <<items[firsts[k]][1], items[last(firsts[k])][2]>>],
            1, Len(firsts))

\* key in d, d[key], d.get(key, default)
DictHas(d, k) == \E j \in 1..Len(d) : d[j][1] = k
DictAt(d, k) == d[CHOOSE j \in 1..Len(d) : d[j][1] = k][2]
DictGet(d, k, default) == IF DictHas(d, k) THEN DictAt(d, k) ELSE default

\* ------------------------------------------------------- the static tables

PRIORITY_COUNTRIES ==
  { <<"U", "S", "A">>, <<"R", "u", "s", "s", "i", "a">>,
    <<"C", "z", "e", "c", "h", " ", "R", "e", "p">>,
    <<"U", "k", "r", "a", "i", "n", "e">>, <<"C", "h", "i", "n", "a">>,
    <<"N", "o", "r", "t", "h", " ", "K", "o", "r", "e", "a">> }

\* The dict literals as they are written in the source, item by item.
PRESIDENTIAL_AIRCRAFT_LITERAL ==
  <<
    <<<<"a", "e", "0", "0", "1", "f">>, [country |-> <<"U", "S", "A">>, description |-> <<"A", "i", "r", " ", "F", "o", "r", "c", "e", " ", "O", "n", "e", " ", "(", "V", "C", "-", "2", "5", "A", ")">>,
        registration |-> <<"8", "2", "-", "8", "0", "0", "0">>, type |-> <<"V", "C", "2", "5">>]>>,
    <<<<"a", "e", "0", "0", "2", "0">>, [country |-> <<"U", "S", "A">>, description |-> <<"A", "i", "r", " ", "F", "o", "r", "c", "e", " ", "O", "n", "e", " ", "(", "V", "C", "-", "2", "5", "A", ")">>,
        registration |-> <<"9", "2", "-", "9", "0", "0", "0">>, type |-> <<"V", "C", "2", "5">>]>>,
    <<<<"a", "e", "0", "0", "1", "c">>, [country |-> <<"U", "S", "A">>, description |-> <<"A", "i", "r", " ", "F", "o", "r", "c", "e", " ", "T", "w", "o", " ", "(", "C", "-", "3", "2", "A", ")">>,
        registration |-> <<"9", "8", "-", "0", "0", "0", "1">>, type |-> <<"C", "3", "2">>]>>,
    <<<<"a", "e", "0", "0", "1", "d">>, [country |-> <<"U", "S", "A">>, description |-> <<"A", "i", "r", " ", "F", "o", "r", "c", "e", " ", "T", "w", "o", " ", "(", "C", "-", "3", "2", "A", ")">>,
        registration |-> <<"9", "8", "-", "0", "0", "0", "2">>, type |-> <<"C", "3", "2">>]>>,
    <<<<"a", "e", "4", "a", "4", "8">>, [country |-> <<"U", "S", "A">>, description |-> <<"C", "-", "3", "2", "A", " ", "V", "I", "P", " ", "T", "r", "a", "n", "s", "p", "o", "r", "t">>,
        registration |-> <<"9", "9", "-", "6", "1", "4", "3">>, type |-> <<"C", "3", "2">>]>>,
    <<<<"a", "e", "0", "1", "f", "a">>, [country |-> <<"U", "S", "A">>, description |-> <<"C", "-", "4", "0", "B", " ", "E", "x", "e", "c", "u", "t", "i", "v", "e", " ", "T", "r", "a", "n", "s", "p", "o", "r", "t">>,
        registration |-> <<"0", "1", "-", "0", "0", "4", "0">>, type |-> <<"C", "4", "0">>]>>,
    <<<<"a", "e", "0", "1", "f", "b">>, [country |-> <<"U", "S", "A">>, description |-> <<"C", "-", "4", "0", "B", " ", "E", "x", "e", "c", "u", "t", "i", "v", "e", " ", "T", "r", "a", "n", "s", "p", "o", "r", "t">>,
        registration |-> <<"0", "1", "-", "0", "0", "4", "1">>, type |-> <<"C", "4", "0">>]>>,
    <<<<"a", "e", "0", "1", "0", "c">>, [country |-> <<"U", "S", "A">>, description |-> <<"C", "-", "3", "7", "A", " ", "G", "u", "l", "f", "s", "t", "r", "e", "a", "m", " ", "V", "I", "P">>,
        registration |-> <<"9", "7", "-", "0", "4", "0", "0">>, type |-> <<"C", "3", "7", "A">>]>>,
    <<<<"a", "e", "0", "1", "0", "d">>, [country |-> <<"U", "S", "A">>, description |-> <<"C", "-", "3", "7", "A", " ", "G", "u", "l", "f", "s", "t", "r", "e", "a", "m", " ", "V", "I", "P">>,
        registration |-> <<"9", "7", "-", "0", "4", "0", "1">>, type |-> <<"C", "3", "7", "A">>]>>,
    <<<<"a", "e", "0", "1", "0", "0">>, [country |-> <<"U", "S", "A">>, description |-> <<"C", "-", "3", "7", "B", " ", "G", "u", "l", "f", "s", "t", "r", "e", "a", "m", " ", "V", "I", "P">>,
        registration |-> <<"0", "9", "-", "0", "5", "2", "5">>, type |-> <<"C", "3", "7", "B">>]>>,
    <<<<"a", "e", "0", "1", "0", "1">>, [country |-> <<"U", "S", "A">>, description |-> <<"C", "-", "3", "7", "B", " ", "G", "u", "l", "f", "s", "t", "r", "e", "a", "m", " ", "V", "I", "P">>,
        registration |-> <<"0", "9", "-", "0", "5", "4", "0">>, type |-> <<"C", "3", "7", "B">>]>>,
    <<<<"a", "e", "0", "4", "1", "4">>, [country |-> <<"U", "S", "A">>, description |-> <<"E", "-", "4", "B", " ", "N", "i", "g", "h", "t", "w", "a", "t", "c", "h", " ", "N", "A", "O", "C">>,
        registration |-> <<"7", "3", "-", "1", "6", "7", "6">>, type |-> <<"E", "4", "B">>]>>,
    <<<<"a", "e", "0", "4", "1", "5">>, [country |-> <<"U", "S", "A">>, description |-> <<"E", "-", "4", "B", " ", "N", "i", "g", "h", "t", "w", "a", "t", "c", "h", " ", "N", "A", "O", "C">>,
        registration |-> <<"7", "4", "-", "0", "7", "8", "7">>, type |-> <<"E", "4", "B">>]>>,
    <<<<"a", "e", "0", "4", "1", "6">>, [country |-> <<"U", "S", "A">>, description |-> <<"E", "-", "4", "B", " ", "N", "i", "g", "h", "t", "w", "a", "t", "c", "h", " ", "N", "A", "O", "C">>,
        registration |-> <<"7", "5", "-", "0", "1", "2", "5">>, type |-> <<"E", "4", "B">>]>>,
    <<<<"a", "e", "0", "4", "1", "7">>, [country |-> <<"U", "S", "A">>, description |-> <<"E", "-", "4", "B", " ", "N", "i", "g", "h", "t", "w", "a", "t", "c", "h", " ", "N", "A", "O", "C">>,
        registration |-> <<"7", "5", "-", "0", "1", "2", "6">>, type |-> <<"E", "4", "B">>]>>,
    <<<<"a", "e", "0", "4", "1", "9">>, [country |-> <<"U", "S", "A">>, description |-> <<"E", "-", "6", "B", " ", "M", "e", "r", "c", "u", "r", "y", " ", "T", "A", "C", "A", "M", "O">>,
        registration |-> <<"1", "6", "2", "7", "8", "2">>, type |-> <<"E", "6">>]>>,
    <<<<"a", "e", "0", "4", "1", "a">>, [country |-> <<"U", "S", "A">>, description |-> <<"E", "-", "6", "B", " ", "M", "e", "r", "c", "u", "r", "y", " ", "T", "A", "C", "A", "M", "O">>,
        registration |-> <<"1", "6", "2", "7", "8", "3">>, type |-> <<"E", "6">>]>>,
    <<<<"a", "e", "0", "4", "1", "b">>, [country |-> <<"U", "S", "A">>, description |-> <<"E", "-", "6", "B", " ", "M", "e", "r", "c", "u", "r", "y", " ", "T", "A", "C", "A", "M", "O">>,
        registration |-> <<"1", "6", "3", "9", "1", "8">>, type |-> <<"E", "6">>]>>,
    <<<<"1", "5", "5", "0", "2", "6">>, [country |-> <<"R", "u", "s", "s", "i", "a">>, description |-> <<"I", "L", "-", "9", "6", "-", "3", "0", "0", "P", "U", " ", "P", "r", "e", "s", "i", "d", "e", "n", "t", "i", "a", "l">>,
        registration |-> <<"R", "A", "-", "9", "6", "0", "1", "6">>, type |-> <<"I", "L", "9", "6">>]>>,
    <<<<"1", "5", "5", "0", "2", "7">>, [country |-> <<"R", "u", "s", "s", "i", "a">>, description |-> <<"I", "L", "-", "9", "6", "-", "3", "0", "0", "P", "U", " ", "P", "r", "e", "s", "i", "d", "e", "n", "t", "i", "a", "l">>,
        registration |-> <<"R", "A", "-", "9", "6", "0", "1", "7">>, type |-> <<"I", "L", "9", "6">>]>>,
    <<<<"1", "5", "5", "0", "2", "8">>, [country |-> <<"R", "u", "s", "s", "i", "a">>, description |-> <<"I", "L", "-", "9", "6", "-", "3", "0", "0", "P", "U", " ", "P", "r", "e", "s", "i", "d", "e", "n", "t", "i", "a", "l">>,
        registration |-> <<"R", "A", "-", "9", "6", "0", "1", "8">>, type |-> <<"I", "L", "9", "6">>]>>,
    <<<<"1", "5", "5", "0", "2", "9">>, [country |-> <<"R", "u", "s", "s", "i", "a">>, description |-> <<"I", "L", "-", "9", "6", "-", "3", "0", "0", "P", "U", " ", "P", "r", "e", "s", "i", "d", "e", "n", "t", "i", "a", "l">>,
        registration |-> <<"R", "A", "-", "9", "6", "0", "1", "9">>, type |-> <<"I", "L", "9", "6">>]>>,
    <<<<"1", "5", "5", "0", "2", "a">>, [country |-> <<"R", "u", "s", "s", "i", "a">>, description |-> <<"I", "L", "-", "9", "6", "-", "3", "0", "0", "P", "U", " ", "P", "r", "e", "s", "i", "d", "e", "n", "t", "i", "a", "l">>,
        registration |-> <<"R", "A", "-", "9", "6", "0", "2", "0">>, type |-> <<"I", "L", "9", "6">>]>>,
    <<<<"1", "5", "5", "0", "2", "b">>, [country |-> <<"R", "u", "s", "s", "i", "a">>, description |-> <<"I", "L", "-", "9", "6", "-", "3", "0", "0", "P", "U", " ", "P", "r", "e", "s", "i", "d", "e", "n", "t", "i", "a", "l">>,
        registration |-> <<"R", "A", "-", "9", "6", "0", "2", "1">>, type |-> <<"I", "L", "9", "6">>]>>,
    <<<<"1", "5", "5", "0", "2", "c">>, [country |-> <<"R", "u", "s", "s", "i", "a">>, description |-> <<"I", "L", "-", "9", "6", "-", "3", "0", "0", "P", "U", " ", "P", "r", "e", "s", "i", "d", "e", "n", "t", "i", "a", "l">>,
        registration |-> <<"R", "A", "-", "9", "6", "0", "2", "2">>, type |-> <<"I", "L", "9", "6">>]>>,
    <<<<"1", "5", "0", "d", "4", "e">>, [country |-> <<"R", "u", "s", "s", "i", "a">>, description |-> <<"T", "u", "-", "2", "1", "4", "P", "U", " ", "G", "o", "v", "e", "r", "n", "m", "e", "n", "t">>,
        registration |-> <<"R", "A", "-", "6", "4", "5", "1", "7">>, type |-> <<"T", "2", "1", "4">>]>>,
    <<<<"1", "5", "0", "d", "4", "f">>, [country |-> <<"R", "u", "s", "s", "i", "a">>, description |-> <<"T", "u", "-", "2", "1", "4", "P", "U", " ", "G", "o", "v", "e", "r", "n", "m", "e", "n", "t">>,
        registration |-> <<"R", "A", "-", "6", "4", "5", "2", "0">>, type |-> <<"T", "2", "1", "4">>]>>,
    <<<<"1", "5", "0", "1", "2", "5">>, [country |-> <<"R", "u", "s", "s", "i", "a">>, description |-> <<"I", "L", "-", "9", "6", "-", "4", "0", "0", " ", "P", "r", "e", "s", "i", "d", "e", "n", "t", "i", "a", "l">>,
        registration |-> <<"R", "A", "-", "9", "6", "1", "0", "2">>, type |-> <<"I", "L", "9", "6">>]>>,
    <<<<"1", "5", "5", "0", "0", "1">>, [country |-> <<"R", "u", "s", "s", "i", "a">>, description |-> <<"T", "u", "-", "2", "1", "4", "S", "R", " ", "G", "o", "v", "e", "r", "n", "m", "e", "n", "t">>,
        registration |-> <<"R", "A", "-", "6", "4", "5", "1", "5">>, type |-> <<"T", "2", "1", "4">>]>>,
    <<<<"1", "5", "5", "0", "0", "2">>, [country |-> <<"R", "u", "s", "s", "i", "a">>, description |-> <<"T", "u", "-", "2", "1", "4", "S", "R", " ", "G", "o", "v", "e", "r", "n", "m", "e", "n", "t">>,
        registration |-> <<"R", "A", "-", "6", "4", "5", "1", "6">>, type |-> <<"T", "2", "1", "4">>]>>,
    <<<<"1", "4", "5", "6", "2", "4">>, [country |-> <<"R", "u", "s", "s", "i", "a">>, description |-> <<"I", "l", "-", "8", "0", " ", "D", "o", "o", "m", "s", "d", "a", "y", " ", "P", "l", "a", "n", "e">>,
        registration |-> <<"R", "A", "-", "8", "6", "1", "4", "7">>, type |-> <<"I", "L", "8", "6">>]>>,
    <<<<"1", "4", "5", "6", "2", "5">>, [country |-> <<"R", "u", "s", "s", "i", "a">>, description |-> <<"I", "l", "-", "8", "0", " ", "D", "o", "o", "m", "s", "d", "a", "y", " ", "P", "l", "a", "n", "e">>,
        registration |-> <<"R", "A", "-", "8", "6", "1", "4", "8">>, type |-> <<"I", "L", "8", "6">>]>>,
    <<<<"7", "8", "0", "a", "7", "1">>, [country |-> <<"C", "h", "i", "n", "a">>, description |-> <<"B", "7", "4", "7", "-", "8", "i", " ", "P", "r", "e", "s", "i", "d", "e", "n", "t", "i", "a", "l">>,
        registration |-> <<"B", "-", "2", "4", "7", "9">>, type |-> <<"B", "7", "4", "8">>]>>,
    <<<<"7", "8", "0", "a", "7", "2">>, [country |-> <<"C", "h", "i", "n", "a">>, description |-> <<"B", "7", "4", "7", "-", "8", "i", " ", "V", "I", "P">>,
        registration |-> <<"B", "-", "2", "4", "8", "0">>, type |-> <<"B", "7", "4", "8">>]>>,
    <<<<"7", "8", "0", "b", "7", "1">>, [country |-> <<"C", "h", "i", "n", "a">>, description |-> <<"B", "7", "3", "7", "-", "8", "0", "0", " ", "G", "o", "v", "e", "r", "n", "m", "e", "n", "t">>,
        registration |-> <<"B", "-", "4", "0", "2", "6">>, type |-> <<"B", "7", "3", "8">>]>>,
    <<<<"7", "8", "0", "b", "7", "2">>, [country |-> <<"C", "h", "i", "n", "a">>, description |-> <<"B", "7", "3", "7", "-", "8", "0", "0", " ", "G", "o", "v", "e", "r", "n", "m", "e", "n", "t">>,
        registration |-> <<"B", "-", "4", "0", "2", "7">>, type |-> <<"B", "7", "3", "8">>]>>,
    <<<<"7", "8", "0", "c", "0", "1">>, [country |-> <<"C", "h", "i", "n", "a">>, description |-> <<"A", "3", "1", "9", "C", "J", " ", "G", "o", "v", "e", "r", "n", "m", "e", "n", "t">>,
        registration |-> <<"B", "-", "4", "0", "9", "0">>, type |-> <<"A", "3", "1", "9">>]>>,
    <<<<"7", "8", "0", "c", "0", "2">>, [country |-> <<"C", "h", "i", "n", "a">>, description |-> <<"A", "3", "1", "9", "C", "J", " ", "G", "o", "v", "e", "r", "n", "m", "e", "n", "t">>,
        registration |-> <<"B", "-", "4", "0", "9", "1">>, type |-> <<"A", "3", "1", "9">>]>>,
    <<<<"7", "8", "1", "0", "1", "1">>, [country |-> <<"C", "h", "i", "n", "a">>, description |-> <<"P", "L", "A", "A", "F", " ", "V", "I", "P", " ", "T", "r", "a", "n", "s", "p", "o", "r", "t">>,
        registration |-> <<"B", "-", "4", "0", "2", "5">>, type |-> <<"B", "7", "3", "8">>]>>,
    <<<<"7", "2", "0", "1", "0", "1">>, [country |-> <<"N", "o", "r", "t", "h", " ", "K", "o", "r", "e", "a">>, description |-> <<"I", "L", "-", "6", "2", "M", " ", "C", "h", "a", "m", "m", "a", "e", "-", "1">>,
        registration |-> <<"P", "-", "6", "1", "8">>, type |-> <<"I", "L", "6", "2">>]>>,
    <<<<"7", "2", "0", "1", "0", "2">>, [country |-> <<"N", "o", "r", "t", "h", " ", "K", "o", "r", "e", "a">>, description |-> <<"I", "L", "-", "6", "2", "M", " ", "G", "o", "v", "e", "r", "n", "m", "e", "n", "t">>,
        registration |-> <<"P", "-", "8", "8", "5">>, type |-> <<"I", "L", "6", "2">>]>>,
    <<<<"7", "2", "0", "2", "0", "1">>, [country |-> <<"N", "o", "r", "t", "h", " ", "K", "o", "r", "e", "a">>, description |-> <<"T", "u", "-", "1", "5", "4", " ", "G", "o", "v", "e", "r", "n", "m", "e", "n", "t">>,
        registration |-> <<"P", "-", "5", "5", "2">>, type |-> <<"T", "1", "5", "4">>]>>,
    <<<<"7", "2", "0", "3", "0", "1">>, [country |-> <<"N", "o", "r", "t", "h", " ", "K", "o", "r", "e", "a">>, description |-> <<"A", "N", "-", "1", "4", "8", " ", "G", "o", "v", "e", "r", "n", "m", "e", "n", "t">>,
        registration |-> <<"P", "-", "6", "7", "1">>, type |-> <<"A", "1", "4", "8">>]>>,
    <<<<"7", "2", "0", "3", "0", "2">>, [country |-> <<"N", "o", "r", "t", "h", " ", "K", "o", "r", "e", "a">>, description |-> <<"A", "N", "-", "1", "4", "8", " ", "G", "o", "v", "e", "r", "n", "m", "e", "n", "t">>,
        registration |-> <<"P", "-", "6", "7", "2">>, type |-> <<"A", "1", "4", "8">>]>>,
    <<<<"5", "0", "8", "a", "2", "8">>, [country |-> <<"U", "k", "r", "a", "i", "n", "e">>, description |-> <<"A", "3", "1", "9", "C", "J", " ", "P", "r", "e", "s", "i", "d", "e", "n", "t", "i", "a", "l">>,
        registration |-> <<"U", "R", "-", "A", "B", "A">>, type |-> <<"A", "3", "1", "9">>]>>,
    <<<<"5", "0", "8", "0", "1", "6">>, [country |-> <<"U", "k", "r", "a", "i", "n", "e">>, description |-> <<"I", "L", "-", "6", "2", "M", " ", "G", "o", "v", "e", "r", "n", "m", "e", "n", "t">>,
        registration |-> <<"U", "R", "-", "8", "6", "5", "2", "7">>, type |-> <<"I", "L", "6", "2">>]>>,
    <<<<"5", "0", "8", "0", "1", "7">>, [country |-> <<"U", "k", "r", "a", "i", "n", "e">>, description |-> <<"I", "L", "-", "6", "2", "M", " ", "G", "o", "v", "e", "r", "n", "m", "e", "n", "t">>,
        registration |-> <<"U", "R", "-", "8", "6", "5", "2", "8">>, type |-> <<"I", "L", "6", "2">>]>>,
    <<<<"5", "0", "8", "a", "0", "1">>, [country |-> <<"U", "k", "r", "a", "i", "n", "e">>, description |-> <<"A", "n", "-", "1", "4", "8", " ", "G", "o", "v", "e", "r", "n", "m", "e", "n", "t">>,
        registration |-> <<"U", "R", "-", "U", "K", "R">>, type |-> <<"A", "1", "4", "8">>]>>,
    <<<<"4", "9", "8", "d", "a", "4">>, [country |-> <<"C", "z", "e", "c", "h", " ", "R", "e", "p">>, description |-> <<"A", "3", "1", "9", "C", "J", " ", "G", "o", "v", "e", "r", "n", "m", "e", "n", "t">>,
        registration |-> <<"O", "K", "-", "G", "O", "V">>, type |-> <<"A", "3", "1", "9">>]>>,
    <<<<"4", "9", "8", "d", "4", "a">>, [country |-> <<"C", "z", "e", "c", "h", " ", "R", "e", "p">>, description |-> <<"C", "L", "-", "6", "0", "1", " ", "C", "h", "a", "l", "l", "e", "n", "g", "e", "r", " ", "V", "I", "P">>,
        registration |-> <<"O", "K", "-", "B", "Y", "R">>, type |-> <<"C", "L", "6", "0">>]>>,
    <<<<"4", "9", "8", "0", "1", "2">>, [country |-> <<"C", "z", "e", "c", "h", " ", "R", "e", "p">>, description |-> <<"A", "3", "1", "9", " ", "A", "i", "r", " ", "F", "o", "r", "c", "e">>,
        registration |-> <<"3", "0", "8", "5">>, type |-> <<"A", "3", "1", "9">>]>>,
    <<<<"4", "9", "8", "0", "0", "1">>, [country |-> <<"C", "z", "e", "c", "h", " ", "R", "e", "p">>, description |-> <<"C", "A", "S", "A", " ", "C", "-", "2", "9", "5", "M">>,
        registration |-> <<"0", "4", "5", "2">>, type |-> <<"C", "2", "9", "5">>]>>,
    <<<<"4", "9", "8", "0", "0", "2">>, [country |-> <<"C", "z", "e", "c", "h", " ", "R", "e", "p">>, description |-> <<"C", "A", "S", "A", " ", "C", "-", "2", "9", "5", "M">>,
        registration |-> <<"0", "4", "5", "3">>, type |-> <<"C", "2", "9", "5">>]>>,
    <<<<"4", "3", "c", "6", "c", "4">>, [country |-> <<"U", "K">>, description |-> <<"R", "A", "F", " ", "V", "o", "y", "a", "g", "e", "r", " ", "A", "3", "3", "0", " ", "M", "R", "T", "T">>,
        registration |-> <<"Z", "Z", "3", "3", "0">>, type |-> <<"A", "3", "3", "2">>]>>,
    <<<<"4", "3", "c", "6", "c", "5">>, [country |-> <<"U", "K">>, description |-> <<"R", "A", "F", " ", "V", "o", "y", "a", "g", "e", "r", " ", "A", "3", "3", "0", " ", "M", "R", "T", "T">>,
        registration |-> <<"Z", "Z", "3", "3", "1">>, type |-> <<"A", "3", "3", "2">>]>>,
    <<<<"4", "3", "c", "6", "c", "6">>, [country |-> <<"U", "K">>, description |-> <<"R", "A", "F", " ", "V", "o", "y", "a", "g", "e", "r", " ", "A", "3", "3", "0", " ", "M", "R", "T", "T">>,
        registration |-> <<"Z", "Z", "3", "3", "2">>, type |-> <<"A", "3", "3", "2">>]>>,
    <<<<"4", "3", "c", "6", "c", "7">>, [country |-> <<"U", "K">>, description |-> <<"R", "A", "F", " ", "V", "o", "y", "a", "g", "e", "r", " ", "A", "3", "3", "0", " ", "M", "R", "T", "T">>,
        registration |-> <<"Z", "Z", "3", "3", "3">>, type |-> <<"A", "3", "3", "2">>]>>,
    <<<<"4", "3", "c", "6", "c", "8">>, [country |-> <<"U", "K">>, description |-> <<"R", "A", "F", " ", "V", "o", "y", "a", "g", "e", "r", " ", "A", "3", "3", "0", " ", "M", "R", "T", "T">>,
        registration |-> <<"Z", "Z", "3", "3", "4">>, type |-> <<"A", "3", "3", "2">>]>>,
    <<<<"4", "3", "c", "6", "c", "9">>, [country |-> <<"U", "K">>, description |-> <<"R", "A", "F", " ", "V", "o", "y", "a", "g", "e", "r", " ", "A", "3", "3", "0", " ", "M", "R", "T", "T">>,
        registration |-> <<"Z", "Z", "3", "3", "5">>, type |-> <<"A", "3", "3", "2">>]>>,
    <<<<"4", "3", "c", "6", "d", "0">>, [country |-> <<"U", "K">>, description |-> <<"R", "A", "F", " ", "V", "o", "y", "a", "g", "e", "r", " ", "A", "3", "3", "0", " ", "M", "R", "T", "T">>,
        registration |-> <<"Z", "Z", "3", "3", "6">>, type |-> <<"A", "3", "3", "2">>]>>,
    <<<<"4", "3", "c", "2", "f", "0">>, [country |-> <<"U", "K">>, description |-> <<"B", "A", "e", " ", "1", "4", "6", " ", "R", "o", "y", "a", "l", " ", "F", "l", "i", "g", "h", "t">>,
        registration |-> <<"Z", "E", "7", "0", "0">>, type |-> <<"B", "4", "6", "1">>]>>,
    <<<<"4", "3", "c", "2", "f", "1">>, [country |-> <<"U", "K">>, description |-> <<"B", "A", "e", " ", "1", "4", "6", " ", "R", "o", "y", "a", "l", " ", "F", "l", "i", "g", "h", "t">>,
        registration |-> <<"Z", "E", "7", "0", "1">>, type |-> <<"B", "4", "6", "1">>]>>,
    <<<<"3", "b", "7", "5", "a", "6">>, [country |-> <<"F", "r", "a", "n", "c", "e">>, description |-> <<"A", "3", "3", "0", "-", "2", "0", "0", " ", "C", "o", "t", "a", "m", " ", "0", "0", "1">>,
        registration |-> <<"F", "-", "R", "A", "R", "F">>, type |-> <<"A", "3", "3", "2">>]>>,
    <<<<"3", "b", "7", "5", "a", "5">>, [country |-> <<"F", "r", "a", "n", "c", "e">>, description |-> <<"A", "3", "3", "0", "-", "2", "0", "0", " ", "C", "o", "t", "a", "m", " ", "0", "0", "2">>,
        registration |-> <<"F", "-", "R", "A", "R", "E">>, type |-> <<"A", "3", "3", "2">>]>>,
    <<<<"3", "b", "7", "5", "4", "1">>, [country |-> <<"F", "r", "a", "n", "c", "e">>, description |-> <<"F", "a", "l", "c", "o", "n", " ", "7", "X", " ", "V", "I", "P">>,
        registration |-> <<"F", "-", "R", "A", "F", "B">>, type |-> <<"F", "A", "7", "X">>]>>,
    <<<<"3", "b", "7", "5", "4", "2">>, [country |-> <<"F", "r", "a", "n", "c", "e">>, description |-> <<"F", "a", "l", "c", "o", "n", " ", "7", "X", " ", "V", "I", "P">>,
        registration |-> <<"F", "-", "R", "A", "F", "C">>, type |-> <<"F", "A", "7", "X">>]>>,
    <<<<"3", "b", "7", "5", "4", "3">>, [country |-> <<"F", "r", "a", "n", "c", "e">>, description |-> <<"F", "a", "l", "c", "o", "n", " ", "9", "0", "0", " ", "V", "I", "P">>,
        registration |-> <<"F", "-", "R", "A", "F", "D">>, type |-> <<"F", "9", "0", "0">>]>>,
    <<<<"3", "b", "7", "5", "4", "4">>, [country |-> <<"F", "r", "a", "n", "c", "e">>, description |-> <<"F", "a", "l", "c", "o", "n", " ", "2", "0", "0", "0", " ", "V", "I", "P">>,
        registration |-> <<"F", "-", "R", "A", "F", "E">>, type |-> <<"F", "2", "T", "H">>]>>,
    <<<<"3", "b", "7", "5", "4", "5">>, [country |-> <<"F", "r", "a", "n", "c", "e">>, description |-> <<"A", "3", "4", "0", "-", "2", "0", "0", " ", "V", "I", "P">>,
        registration |-> <<"F", "-", "R", "A", "J", "B">>, type |-> <<"A", "3", "4", "2">>]>>,
    <<<<"3", "b", "7", "6", "0", "1">>, [country |-> <<"F", "r", "a", "n", "c", "e">>, description |-> <<"A", "3", "3", "0", " ", "M", "R", "T", "T", " ", "P", "h", "e", "n", "i", "x">>,
        registration |-> <<"F", "-", "U", "J", "C", "A">>, type |-> <<"A", "3", "3", "2">>]>>,
    <<<<"3", "b", "7", "6", "0", "2">>, [country |-> <<"F", "r", "a", "n", "c", "e">>, description |-> <<"A", "3", "3", "0", " ", "M", "R", "T", "T", " ", "P", "h", "e", "n", "i", "x">>,
        registration |-> <<"F", "-", "U", "J", "C", "B">>, type |-> <<"A", "3", "3", "2">>]>>,
    <<<<"3", "f", "4", "6", "1", "5">>, [country |-> <<"G", "e", "r", "m", "a", "n", "y">>, description |-> <<"A", "3", "5", "0", "-", "9", "0", "0", " ", "K", "o", "n", "r", "a", "d", " ", "A", "d", "e", "n", "a", "u", "e", "r">>,
        registration |-> <<"1", "0", "+", "0", "1">>, type |-> <<"A", "3", "5", "9">>]>>,
    <<<<"3", "f", "4", "6", "1", "6">>, [country |-> <<"G", "e", "r", "m", "a", "n", "y">>, description |-> <<"A", "3", "5", "0", "-", "9", "0", "0", " ", "T", "h", "e", "o", "d", "o", "r", " ", "H", "e", "u", "s", "s">>,
        registration |-> <<"1", "0", "+", "0", "2">>, type |-> <<"A", "3", "5", "9">>]>>,
    <<<<"3", "f", "4", "6", "1", "7">>, [country |-> <<"G", "e", "r", "m", "a", "n", "y">>, description |-> <<"A", "3", "5", "0", "-", "9", "0", "0", " ", "K", "u", "r", "t", " ", "S", "c", "h", "u", "m", "a", "c", "h", "e", "r">>,
        registration |-> <<"1", "0", "+", "0", "3">>, type |-> <<"A", "3", "5", "9">>]>>,
    <<<<"3", "f", "4", "5", "4", "2">>, [country |-> <<"G", "e", "r", "m", "a", "n", "y">>, description |-> <<"A", "3", "2", "1", "-", "2", "0", "0", " ", "V", "I", "P">>,
        registration |-> <<"1", "5", "+", "0", "1">>, type |-> <<"A", "3", "2", "1">>]>>,
    <<<<"3", "f", "4", "5", "4", "3">>, [country |-> <<"G", "e", "r", "m", "a", "n", "y">>, description |-> <<"A", "3", "2", "1", "-", "2", "0", "0", " ", "V", "I", "P">>,
        registration |-> <<"1", "5", "+", "0", "2">>, type |-> <<"A", "3", "2", "1">>]>>,
    <<<<"3", "f", "4", "5", "4", "4">>, [country |-> <<"G", "e", "r", "m", "a", "n", "y">>, description |-> <<"A", "3", "1", "9", "C", "J", " ", "V", "I", "P">>,
        registration |-> <<"1", "5", "+", "0", "3">>, type |-> <<"A", "3", "1", "9">>]>>,
    <<<<"3", "f", "4", "5", "4", "5">>, [country |-> <<"G", "e", "r", "m", "a", "n", "y">>, description |-> <<"A", "3", "1", "9", "C", "J", " ", "V", "I", "P">>,
        registration |-> <<"1", "5", "+", "0", "4">>, type |-> <<"A", "3", "1", "9">>]>>,
    <<<<"3", "f", "4", "5", "7", "c">>, [country |-> <<"G", "e", "r", "m", "a", "n", "y">>, description |-> <<"G", "l", "o", "b", "a", "l", " ", "5", "0", "0", "0", " ", "V", "I", "P">>,
        registration |-> <<"1", "4", "+", "0", "1">>, type |-> <<"G", "L", "5", "T">>]>>,
    <<<<"3", "f", "4", "5", "7", "d">>, [country |-> <<"G", "e", "r", "m", "a", "n", "y">>, description |-> <<"G", "l", "o", "b", "a", "l", " ", "5", "0", "0", "0", " ", "V", "I", "P">>,
        registration |-> <<"1", "4", "+", "0", "2">>, type |-> <<"G", "L", "5", "T">>]>>,
    <<<<"3", "f", "4", "5", "7", "e">>, [country |-> <<"G", "e", "r", "m", "a", "n", "y">>, description |-> <<"G", "l", "o", "b", "a", "l", " ", "5", "0", "0", "0", " ", "V", "I", "P">>,
        registration |-> <<"1", "4", "+", "0", "3">>, type |-> <<"G", "L", "5", "T">>]>>,
    <<<<"3", "f", "4", "5", "7", "f">>, [country |-> <<"G", "e", "r", "m", "a", "n", "y">>, description |-> <<"G", "l", "o", "b", "a", "l", " ", "5", "0", "0", "0", " ", "V", "I", "P">>,
        registration |-> <<"1", "4", "+", "0", "4">>, type |-> <<"G", "L", "5", "T">>]>>,
    <<<<"3", "3", "f", "f", "0", "1">>, [country |-> <<"I", "t", "a", "l", "y">>, description |-> <<"A", "3", "4", "0", "-", "5", "0", "0", " ", "P", "r", "e", "s", "i", "d", "e", "n", "t", "i", "a", "l">>,
        registration |-> <<"I", "-", "T", "A", "L", "Y">>, type |-> <<"A", "3", "4", "5">>]>>,
    <<<<"3", "3", "f", "f", "0", "2">>, [country |-> <<"I", "t", "a", "l", "y">>, description |-> <<"A", "3", "1", "9", "C", "J", " ", "V", "I", "P">>,
        registration |-> <<"M", "M", "6", "2", "2", "4", "3">>, type |-> <<"A", "3", "1", "9">>]>>,
    <<<<"3", "3", "f", "f", "0", "3">>, [country |-> <<"I", "t", "a", "l", "y">>, description |-> <<"A", "3", "1", "9", "C", "J", " ", "V", "I", "P">>,
        registration |-> <<"M", "M", "6", "2", "1", "7", "4">>, type |-> <<"A", "3", "1", "9">>]>>,
    <<<<"3", "3", "f", "f", "1", "0">>, [country |-> <<"I", "t", "a", "l", "y">>, description |-> <<"F", "a", "l", "c", "o", "n", " ", "9", "0", "0", "E", "X", " ", "V", "I", "P">>,
        registration |-> <<"M", "M", "6", "2", "2", "1", "0">>, type |-> <<"F", "9", "0", "0">>]>>,
    <<<<"3", "3", "f", "f", "1", "1">>, [country |-> <<"I", "t", "a", "l", "y">>, description |-> <<"F", "a", "l", "c", "o", "n", " ", "9", "0", "0", "E", "X", " ", "V", "I", "P">>,
        registration |-> <<"M", "M", "6", "2", "2", "1", "1">>, type |-> <<"F", "9", "0", "0">>]>>,
    <<<<"3", "3", "f", "f", "1", "2">>, [country |-> <<"I", "t", "a", "l", "y">>, description |-> <<"F", "a", "l", "c", "o", "n", " ", "9", "0", "0", "E", "X", " ", "V", "I", "P">>,
        registration |-> <<"M", "M", "6", "2", "2", "4", "4">>, type |-> <<"F", "9", "0", "0">>]>>,
    <<<<"3", "4", "3", "1", "8", "c">>, [country |-> <<"S", "p", "a", "i", "n">>, description |-> <<"A", "3", "1", "0", "-", "3", "0", "0", " ", "V", "I", "P">>,
        registration |-> <<"T", ".", "2", "2", "-", "1">>, type |-> <<"A", "3", "1", "0">>]>>,
    <<<<"3", "4", "3", "1", "8", "d">>, [country |-> <<"S", "p", "a", "i", "n">>, description |-> <<"A", "3", "1", "0", "-", "3", "0", "0", " ", "V", "I", "P">>,
        registration |-> <<"T", ".", "2", "2", "-", "2">>, type |-> <<"A", "3", "1", "0">>]>>,
    <<<<"3", "4", "3", "1", "9", "1">>, [country |-> <<"S", "p", "a", "i", "n">>, description |-> <<"F", "a", "l", "c", "o", "n", " ", "9", "0", "0", " ", "V", "I", "P">>,
        registration |-> <<"T", ".", "1", "8", "-", "1">>, type |-> <<"F", "9", "0", "0">>]>>,
    <<<<"3", "4", "3", "1", "9", "2">>, [country |-> <<"S", "p", "a", "i", "n">>, description |-> <<"F", "a", "l", "c", "o", "n", " ", "9", "0", "0", " ", "V", "I", "P">>,
        registration |-> <<"T", ".", "1", "8", "-", "2">>, type |-> <<"F", "9", "0", "0">>]>>,
    <<<<"3", "4", "3", "1", "9", "3">>, [country |-> <<"S", "p", "a", "i", "n">>, description |-> <<"F", "a", "l", "c", "o", "n", " ", "9", "0", "0", " ", "V", "I", "P">>,
        registration |-> <<"T", ".", "1", "8", "-", "3">>, type |-> <<"F", "9", "0", "0">>]>>,
    <<<<"3", "4", "3", "1", "9", "4">>, [country |-> <<"S", "p", "a", "i", "n">>, description |-> <<"F", "a", "l", "c", "o", "n", " ", "9", "0", "0", " ", "V", "I", "P">>,
        registration |-> <<"T", ".", "1", "8", "-", "4">>, type |-> <<"F", "9", "0", "0">>]>>,
    <<<<"3", "4", "3", "1", "9", "5">>, [country |-> <<"S", "p", "a", "i", "n">>, description |-> <<"F", "a", "l", "c", "o", "n", " ", "9", "0", "0", " ", "V", "I", "P">>,
        registration |-> <<"T", ".", "1", "8", "-", "5">>, type |-> <<"F", "9", "0", "0">>]>>,
    <<<<"3", "4", "3", "1", "a", "0">>, [country |-> <<"S", "p", "a", "i", "n">>, description |-> <<"A", "4", "0", "0", "M", " ", "A", "t", "l", "a", "s">>,
        registration |-> <<"T", ".", "2", "3", "-", "0", "1">>, type |-> <<"A", "4", "0", "0">>]>>,
    <<<<"4", "8", "9", "7", "0", "2">>, [country |-> <<"P", "o", "l", "a", "n", "d">>, description |-> <<"B", "7", "3", "7", "-", "8", "0", "0", " ", "H", "e", "a", "d", " ", "o", "f", " ", "S", "t", "a", "t", "e">>,
        registration |-> <<"S", "P", "-", "L", "I", "G">>, type |-> <<"B", "7", "3", "8">>]>>,
    <<<<"4", "8", "9", "4", "6", "0">>, [country |-> <<"P", "o", "l", "a", "n", "d">>, description |-> <<"G", "u", "l", "f", "s", "t", "r", "e", "a", "m", " ", "G", "5", "5", "0", " ", "V", "I", "P">>,
        registration |-> <<"0", "1", "1", "0">>, type |-> <<"G", "5", "5", "0">>]>>,
    <<<<"4", "8", "9", "4", "6", "1">>, [country |-> <<"P", "o", "l", "a", "n", "d">>, description |-> <<"G", "u", "l", "f", "s", "t", "r", "e", "a", "m", " ", "G", "5", "5", "0", " ", "V", "I", "P">>,
        registration |-> <<"0", "1", "1", "1">>, type |-> <<"G", "5", "5", "0">>]>>,
    <<<<"4", "8", "9", "4", "7", "e">>, [country |-> <<"P", "o", "l", "a", "n", "d">>, description |-> <<"B", "7", "3", "7", "-", "8", "0", "0", "B", "B", "J", " ", "V", "I", "P">>,
        registration |-> <<"0", "0", "0", "1">>, type |-> <<"B", "7", "3", "8">>]>>,
    <<<<"4", "8", "9", "4", "7", "f">>, [country |-> <<"P", "o", "l", "a", "n", "d">>, description |-> <<"B", "7", "3", "7", "-", "8", "0", "0", "B", "B", "J", " ", "V", "I", "P">>,
        registration |-> <<"0", "0", "0", "2">>, type |-> <<"B", "7", "3", "8">>]>>,
    <<<<"4", "8", "4", "1", "0", "1">>, [country |-> <<"N", "e", "t", "h", "e", "r", "l", "a", "n", "d", "s">>, description |-> <<"B", "7", "3", "7", "-", "7", "0", "0", "B", "B", "J", " ", "R", "o", "y", "a", "l">>,
        registration |-> <<"P", "H", "-", "G", "O", "V">>, type |-> <<"B", "7", "3", "7">>]>>,
    <<<<"4", "8", "4", "1", "0", "2">>, [country |-> <<"N", "e", "t", "h", "e", "r", "l", "a", "n", "d", "s">>, description |-> <<"G", "u", "l", "f", "s", "t", "r", "e", "a", "m", " ", "G", "6", "5", "0", " ", "V", "I", "P">>,
        registration |-> <<"P", "H", "-", "G", "V", "I">>, type |-> <<"G", "6", "5", "0">>]>>,
    <<<<"4", "8", "4", "1", "1", "0">>, [country |-> <<"N", "e", "t", "h", "e", "r", "l", "a", "n", "d", "s">>, description |-> <<"K", "D", "C", "-", "1", "0", " ", "T", "a", "n", "k", "e", "r", "/", "V", "I", "P">>,
        registration |-> <<"T", "-", "2", "6", "4">>, type |-> <<"D", "C", "1", "0">>]>>,
    <<<<"4", "4", "d", "0", "0", "1">>, [country |-> <<"B", "e", "l", "g", "i", "u", "m">>, description |-> <<"E", "R", "J", "-", "1", "3", "5", " ", "V", "I", "P">>,
        registration |-> <<"C", "E", "-", "0", "1">>, type |-> <<"E", "1", "3", "5">>]>>,
    <<<<"4", "4", "d", "0", "0", "2">>, [country |-> <<"B", "e", "l", "g", "i", "u", "m">>, description |-> <<"E", "R", "J", "-", "1", "4", "5", " ", "V", "I", "P">>,
        registration |-> <<"C", "E", "-", "0", "2">>, type |-> <<"E", "1", "4", "5">>]>>,
    <<<<"4", "4", "d", "0", "0", "3">>, [country |-> <<"B", "e", "l", "g", "i", "u", "m">>, description |-> <<"F", "a", "l", "c", "o", "n", " ", "7", "X", " ", "V", "I", "P">>,
        registration |-> <<"C", "D", "-", "0", "1">>, type |-> <<"F", "A", "7", "X">>]>>,
    <<<<"4", "4", "d", "0", "1", "0">>, [country |-> <<"B", "e", "l", "g", "i", "u", "m">>, description |-> <<"A", "3", "2", "1", " ", "G", "o", "v", "e", "r", "n", "m", "e", "n", "t">>,
        registration |-> <<"C", "S", "-", "T", "R", "J">>, type |-> <<"A", "3", "2", "1">>]>>,
    <<<<"4", "4", "0", "1", "0", "1">>, [country |-> <<"A", "u", "s", "t", "r", "i", "a">>, description |-> <<"P", "C", "-", "1", "2", " ", "V", "I", "P">>,
        registration |-> <<"O", "E", "-", "E", "P", "M">>, type |-> <<"P", "C", "1", "2">>]>>,
    <<<<"4", "4", "0", "1", "0", "2">>, [country |-> <<"A", "u", "s", "t", "r", "i", "a">>, description |-> <<"C", "-", "1", "3", "0", "K", " ", "H", "e", "r", "c", "u", "l", "e", "s">>,
        registration |-> <<"8", "T", "-", "C", "A">>, type |-> <<"C", "1", "3", "0">>]>>,
    <<<<"4", "4", "0", "1", "0", "3">>, [country |-> <<"A", "u", "s", "t", "r", "i", "a">>, description |-> <<"C", "-", "1", "3", "0", "K", " ", "H", "e", "r", "c", "u", "l", "e", "s">>,
        registration |-> <<"8", "T", "-", "C", "B">>, type |-> <<"C", "1", "3", "0">>]>>,
    <<<<"4", "4", "0", "1", "0", "4">>, [country |-> <<"A", "u", "s", "t", "r", "i", "a">>, description |-> <<"C", "-", "1", "3", "0", "K", " ", "H", "e", "r", "c", "u", "l", "e", "s">>,
        registration |-> <<"8", "T", "-", "C", "C">>, type |-> <<"C", "1", "3", "0">>]>>,
    <<<<"4", "b", "0", "0", "1", "1">>, [country |-> <<"S", "w", "i", "t", "z", "e", "r", "l", "a", "n", "d">>, description |-> <<"C", "i", "t", "a", "t", "i", "o", "n", " ", "E", "x", "c", "e", "l", " ", "V", "I", "P">>,
        registration |-> <<"T", "-", "7", "8", "4">>, type |-> <<"C", "5", "6", "X">>]>>,
    <<<<"4", "b", "0", "0", "1", "2">>, [country |-> <<"S", "w", "i", "t", "z", "e", "r", "l", "a", "n", "d">>, description |-> <<"P", "C", "-", "2", "4", " ", "V", "I", "P">>,
        registration |-> <<"T", "-", "7", "8", "6">>, type |-> <<"P", "C", "2", "4">>]>>,
    <<<<"4", "b", "0", "0", "1", "3">>, [country |-> <<"S", "w", "i", "t", "z", "e", "r", "l", "a", "n", "d">>, description |-> <<"F", "a", "l", "c", "o", "n", " ", "9", "0", "0", " ", "V", "I", "P">>,
        registration |-> <<"T", "-", "7", "8", "5">>, type |-> <<"F", "9", "0", "0">>]>>,
    <<<<"4", "a", "8", "0", "0", "1">>, [country |-> <<"S", "w", "e", "d", "e", "n">>, description |-> <<"G", "u", "l", "f", "s", "t", "r", "e", "a", "m", " ", "G", "5", "5", "0", " ", "V", "I", "P">>,
        registration |-> <<"1", "0", "2", "0", "0", "1">>, type |-> <<"G", "5", "5", "0">>]>>,
    <<<<"4", "a", "8", "0", "0", "2">>, [country |-> <<"S", "w", "e", "d", "e", "n">>, description |-> <<"G", "u", "l", "f", "s", "t", "r", "e", "a", "m", " ", "G", "5", "5", "0", " ", "V", "I", "P">>,
        registration |-> <<"1", "0", "2", "0", "0", "2">>, type |-> <<"G", "5", "5", "0">>]>>,
    <<<<"4", "a", "8", "0", "0", "3">>, [country |-> <<"S", "w", "e", "d", "e", "n">>, description |-> <<"S", "1", "0", "2", "B", " ", "K", "o", "r", "p", "e", "n", " ", "S", "I", "G", "I", "N", "T">>,
        registration |-> <<"1", "0", "2", "0", "0", "3">>, type |-> <<"G", "5", "5", "0">>]>>,
    <<<<"4", "7", "8", "1", "0", "1">>, [country |-> <<"N", "o", "r", "w", "a", "y">>, description |-> <<"F", "a", "l", "c", "o", "n", " ", "7", "X", " ", "V", "I", "P">>,
        registration |-> <<"0", "5", "3">>, type |-> <<"F", "A", "7", "X">>]>>,
    <<<<"4", "7", "8", "1", "0", "2">>, [country |-> <<"N", "o", "r", "w", "a", "y">>, description |-> <<"F", "a", "l", "c", "o", "n", " ", "7", "X", " ", "V", "I", "P">>,
        registration |-> <<"0", "5", "4">>, type |-> <<"F", "A", "7", "X">>]>>,
    <<<<"4", "7", "8", "1", "0", "3">>, [country |-> <<"N", "o", "r", "w", "a", "y">>, description |-> <<"F", "a", "l", "c", "o", "n", " ", "2", "0", " ", "E", "W">>,
        registration |-> <<"0", "4", "1">>, type |-> <<"F", "A", "2", "0">>]>>,
    <<<<"4", "5", "9", "9", "0", "1">>, [country |-> <<"D", "e", "n", "m", "a", "r", "k">>, description |-> <<"C", "L", "-", "6", "0", "4", " ", "C", "h", "a", "l", "l", "e", "n", "g", "e", "r", " ", "V", "I", "P">>,
        registration |-> <<"C", "-", "0", "8", "0">>, type |-> <<"C", "L", "6", "0">>]>>,
    <<<<"4", "5", "9", "9", "0", "2">>, [country |-> <<"D", "e", "n", "m", "a", "r", "k">>, description |-> <<"C", "L", "-", "6", "0", "4", " ", "C", "h", "a", "l", "l", "e", "n", "g", "e", "r", " ", "V", "I", "P">>,
        registration |-> <<"C", "-", "1", "6", "8">>, type |-> <<"C", "L", "6", "0">>]>>,
    <<<<"4", "5", "9", "9", "0", "3">>, [country |-> <<"D", "e", "n", "m", "a", "r", "k">>, description |-> <<"C", "L", "-", "6", "0", "4", " ", "C", "h", "a", "l", "l", "e", "n", "g", "e", "r", " ", "V", "I", "P">>,
        registration |-> <<"C", "-", "1", "7", "2">>, type |-> <<"C", "L", "6", "0">>]>>,
    <<<<"4", "6", "1", "e", "0", "1">>, [country |-> <<"F", "i", "n", "l", "a", "n", "d">>, description |-> <<"C", "L", "-", "6", "0", "4", " ", "C", "h", "a", "l", "l", "e", "n", "g", "e", "r", " ", "V", "I", "P">>,
        registration |-> <<"C", "C", "-", "1">>, type |-> <<"C", "L", "6", "0">>]>>,
    <<<<"4", "6", "1", "e", "0", "2">>, [country |-> <<"F", "i", "n", "l", "a", "n", "d">>, description |-> <<"L", "J", "-", "3", "5", " ", "L", "e", "a", "r", "j", "e", "t", " ", "V", "I", "P">>,
        registration |-> <<"L", "J", "-", "1">>, type |-> <<"L", "J", "3", "5">>]>>,
    <<<<"4", "6", "1", "e", "0", "3">>, [country |-> <<"F", "i", "n", "l", "a", "n", "d">>, description |-> <<"L", "J", "-", "3", "5", " ", "L", "e", "a", "r", "j", "e", "t", " ", "V", "I", "P">>,
        registration |-> <<"L", "J", "-", "2">>, type |-> <<"L", "J", "3", "5">>]>>,
    <<<<"4", "9", "0", "5", "0", "1">>, [country |-> <<"P", "o", "r", "t", "u", "g", "a", "l">>, description |-> <<"F", "a", "l", "c", "o", "n", " ", "5", "0", " ", "V", "I", "P">>,
        registration |-> <<"1", "7", "4", "0", "1">>, type |-> <<"F", "A", "5", "0">>]>>,
    <<<<"4", "9", "0", "5", "0", "2">>, [country |-> <<"P", "o", "r", "t", "u", "g", "a", "l">>, description |-> <<"F", "a", "l", "c", "o", "n", " ", "5", "0", " ", "V", "I", "P">>,
        registration |-> <<"1", "7", "4", "0", "2">>, type |-> <<"F", "A", "5", "0">>]>>,
    <<<<"4", "9", "0", "5", "0", "3">>, [country |-> <<"P", "o", "r", "t", "u", "g", "a", "l">>, description |-> <<"F", "a", "l", "c", "o", "n", " ", "5", "0", " ", "V", "I", "P">>,
        registration |-> <<"1", "7", "4", "0", "3">>, type |-> <<"F", "A", "5", "0">>]>>,
    <<<<"4", "6", "8", "c", "0", "1">>, [country |-> <<"G", "r", "e", "e", "c", "e">>, description |-> <<"E", "R", "J", "-", "1", "3", "5", " ", "V", "I", "P">>,
        registration |-> <<"1", "4", "5", "-", "2", "0", "8">>, type |-> <<"E", "1", "3", "5">>]>>,
    <<<<"4", "6", "8", "c", "0", "2">>, [country |-> <<"G", "r", "e", "e", "c", "e">>, description |-> <<"E", "R", "J", "-", "1", "3", "5", " ", "V", "I", "P">>,
        registration |-> <<"1", "4", "5", "-", "2", "0", "9">>, type |-> <<"E", "1", "3", "5">>]>>,
    <<<<"4", "6", "8", "c", "0", "3">>, [country |-> <<"G", "r", "e", "e", "c", "e">>, description |-> <<"G", "u", "l", "f", "s", "t", "r", "e", "a", "m", " ", "V", " ", "V", "I", "P">>,
        registration |-> <<"6", "7", "8">>, type |-> <<"G", "L", "F", "5">>]>>,
    <<<<"4", "7", "a", "0", "0", "1">>, [country |-> <<"H", "u", "n", "g", "a", "r", "y">>, description |-> <<"F", "a", "l", "c", "o", "n", " ", "7", "X", " ", "V", "I", "P">>,
        registration |-> <<"6", "0", "6">>, type |-> <<"F", "A", "7", "X">>]>>,
    <<<<"4", "7", "a", "0", "0", "2">>, [country |-> <<"H", "u", "n", "g", "a", "r", "y">>, description |-> <<"D", "a", "s", "s", "a", "u", "l", "t", " ", "9", "0", "0", "L", "X", " ", "V", "I", "P">>,
        registration |-> <<"6", "0", "4">>, type |-> <<"F", "9", "0", "0">>]>>,
    <<<<"4", "7", "a", "0", "0", "3">>, [country |-> <<"H", "u", "n", "g", "a", "r", "y">>, description |-> <<"A", "3", "1", "9", "C", "J", " ", "V", "I", "P">>,
        registration |-> <<"6", "0", "5">>, type |-> <<"A", "3", "1", "9">>]>>,
    <<<<"4", "a", "1", "0", "0", "1">>, [country |-> <<"R", "o", "m", "a", "n", "i", "a">>, description |-> <<"B", "7", "3", "7", "-", "7", "0", "0", "B", "B", "J", " ", "V", "I", "P">>,
        registration |-> <<"Y", "R", "-", "B", "B", "J">>, type |-> <<"B", "7", "3", "7">>]>>,
    <<<<"4", "a", "1", "0", "0", "2">>, [country |-> <<"R", "o", "m", "a", "n", "i", "a">>, description |-> <<"C", "-", "1", "3", "0", "H", " ", "H", "e", "r", "c", "u", "l", "e", "s">>,
        registration |-> <<"5", "9", "3", "0">>, type |-> <<"C", "1", "3", "0">>]>>,
    <<<<"4", "5", "0", "5", "0", "1">>, [country |-> <<"B", "u", "l", "g", "a", "r", "i", "a">>, description |-> <<"F", "a", "l", "c", "o", "n", " ", "2", "0", "0", "0", " ", "V", "I", "P">>,
        registration |-> <<"L", "Z", "-", "O", "O", "I">>, type |-> <<"F", "2", "T", "H">>]>>,
    <<<<"4", "5", "0", "5", "0", "2">>, [country |-> <<"B", "u", "l", "g", "a", "r", "i", "a">>, description |-> <<"A", "3", "1", "9", " ", "G", "o", "v", "e", "r", "n", "m", "e", "n", "t">>,
        registration |-> <<"L", "Z", "-", "A", "O", "B">>, type |-> <<"A", "3", "1", "9">>]>>,
    <<<<"5", "0", "1", "c", "0", "1">>, [country |-> <<"C", "r", "o", "a", "t", "i", "a">>, description |-> <<"C", "L", "-", "6", "0", "4", " ", "C", "h", "a", "l", "l", "e", "n", "g", "e", "r", " ", "V", "I", "P">>,
        registration |-> <<"9", "A", "-", "C", "R", "O">>, type |-> <<"C", "L", "6", "0">>]>>,
    <<<<"4", "d", "0", "0", "0", "1">>, [country |-> <<"S", "l", "o", "v", "e", "n", "i", "a">>, description |-> <<"F", "a", "l", "c", "o", "n", " ", "2", "0", "0", "0", " ", "V", "I", "P">>,
        registration |-> <<"S", "5", "-", "B", "A", "V">>, type |-> <<"F", "2", "T", "H">>]>>,
    <<<<"5", "0", "6", "c", "0", "1">>, [country |-> <<"S", "l", "o", "v", "a", "k", "i", "a">>, description |-> <<"F", "o", "k", "k", "e", "r", " ", "1", "0", "0", " ", "V", "I", "P">>,
        registration |-> <<"O", "M", "-", "B", "Y", "A">>, type |-> <<"F", "1", "0", "0">>]>>,
    <<<<"5", "0", "6", "c", "0", "2">>, [country |-> <<"S", "l", "o", "v", "a", "k", "i", "a">>, description |-> <<"F", "o", "k", "k", "e", "r", " ", "1", "0", "0", " ", "V", "I", "P">>,
        registration |-> <<"O", "M", "-", "B", "Y", "B">>, type |-> <<"F", "1", "0", "0">>]>>,
    <<<<"5", "1", "1", "0", "1", "7">>, [country |-> <<"E", "s", "t", "o", "n", "i", "a">>, description |-> <<"C", "R", "J", "-", "7", "0", "0", " ", "G", "o", "v", "e", "r", "n", "m", "e", "n", "t">>,
        registration |-> <<"E", "S", "-", "P", "V", "G">>, type |-> <<"C", "R", "J", "7">>]>>,
    <<<<"5", "0", "2", "c", "0", "3">>, [country |-> <<"L", "a", "t", "v", "i", "a">>, description |-> <<"A", "2", "2", "0", "-", "3", "0", "0", " ", "G", "o", "v", "e", "r", "n", "m", "e", "n", "t">>,
        registration |-> <<"Y", "L", "-", "L", "F", "B">>, type |-> <<"B", "C", "S", "3">>]>>,
    <<<<"5", "0", "2", "c", "1", "7">>, [country |-> <<"L", "a", "t", "v", "i", "a">>, description |-> <<"L", "-", "4", "1", "0", " ", "G", "o", "v", "e", "r", "n", "m", "e", "n", "t">>,
        registration |-> <<"Y", "L", "-", "K", "A", "M">>, type |-> <<"L", "4", "1", "0">>]>>,
    <<<<"5", "0", "3", "c", "0", "1">>, [country |-> <<"L", "i", "t", "h", "u", "a", "n", "i", "a">>, description |-> <<"L", "-", "4", "1", "0", " ", "G", "o", "v", "e", "r", "n", "m", "e", "n", "t">>,
        registration |-> <<"0", "1">>, type |-> <<"L", "4", "1", "0">>]>>,
    <<<<"5", "0", "3", "c", "0", "2">>, [country |-> <<"L", "i", "t", "h", "u", "a", "n", "i", "a">>, description |-> <<"C", "-", "2", "7", "J", " ", "S", "p", "a", "r", "t", "a", "n">>,
        registration |-> <<"0", "2">>, type |-> <<"C", "2", "7", "J">>]>>,
    <<<<"4", "c", "8", "0", "0", "1">>, [country |-> <<"I", "r", "e", "l", "a", "n", "d">>, description |-> <<"L", "J", "-", "4", "5", " ", "L", "e", "a", "r", "j", "e", "t", " ", "V", "I", "P">>,
        registration |-> <<"2", "5", "2">>, type |-> <<"L", "J", "4", "5">>]>>,
    <<<<"4", "c", "8", "0", "0", "2">>, [country |-> <<"I", "r", "e", "l", "a", "n", "d">>, description |-> <<"L", "J", "-", "4", "5", " ", "L", "e", "a", "r", "j", "e", "t", " ", "V", "I", "P">>,
        registration |-> <<"2", "5", "3">>, type |-> <<"L", "J", "4", "5">>]>>,
    <<<<"4", "c", "8", "0", "0", "3">>, [country |-> <<"I", "r", "e", "l", "a", "n", "d">>, description |-> <<"G", "2", "8", "0", " ", "G", "o", "v", "e", "r", "n", "m", "e", "n", "t">>,
        registration |-> <<"2", "8", "0">>, type |-> <<"G", "2", "8", "0">>]>>,
    <<<<"4", "b", "8", "0", "0", "1">>, [country |-> <<"T", "u", "r", "k", "e", "y">>, description |-> <<"A", "3", "3", "0", "-", "2", "0", "0", " ", "V", "I", "P">>,
        registration |-> <<"T", "C", "-", "T", "U", "R">>, type |-> <<"A", "3", "3", "2">>]>>,
    <<<<"4", "b", "8", "0", "0", "2">>, [country |-> <<"T", "u", "r", "k", "e", "y">>, description |-> <<"A", "3", "1", "9", "C", "J", " ", "V", "I", "P">>,
        registration |-> <<"T", "C", "-", "A", "N", "A">>, type |-> <<"A", "3", "1", "9">>]>>,
    <<<<"4", "b", "8", "0", "0", "3">>, [country |-> <<"T", "u", "r", "k", "e", "y">>, description |-> <<"G", "u", "l", "f", "s", "t", "r", "e", "a", "m", " ", "5", "5", "0", " ", "V", "I", "P">>,
        registration |-> <<"T", "C", "-", "D", "A", "P">>, type |-> <<"G", "5", "5", "0">>]>>,
    <<<<"4", "b", "8", "0", "0", "4">>, [country |-> <<"T", "u", "r", "k", "e", "y">>, description |-> <<"B", "7", "3", "7", "-", "8", "0", "0", "B", "B", "J", " ", "V", "I", "P">>,
        registration |-> <<"T", "C", "-", "A", "T", "A">>, type |-> <<"B", "7", "3", "8">>]>>,
    <<<<"1", "5", "1", "d", "b", "8">>, [country |-> <<"B", "e", "l", "a", "r", "u", "s">>, description |-> <<"B", "7", "3", "7", "-", "8", "0", "0", " ", "P", "r", "e", "s", "i", "d", "e", "n", "t", "i", "a", "l">>,
        registration |-> <<"E", "W", "-", "0", "0", "1", "P", "A">>, type |-> <<"B", "7", "3", "8">>]>>,
    <<<<"1", "5", "1", "d", "b", "9">>, [country |-> <<"B", "e", "l", "a", "r", "u", "s">>, description |-> <<"B", "7", "6", "7", " ", "V", "I", "P">>,
        registration |-> <<"E", "W", "-", "0", "0", "1", "P", "B">>, type |-> <<"B", "7", "6", "7">>]>>,
    <<<<"1", "5", "1", "d", "c", "0">>, [country |-> <<"B", "e", "l", "a", "r", "u", "s">>, description |-> <<"T", "u", "-", "1", "3", "4", " ", "G", "o", "v", "e", "r", "n", "m", "e", "n", "t">>,
        registration |-> <<"E", "W", "-", "6", "5", "1", "4", "9">>, type |-> <<"T", "1", "3", "4">>]>>,
    <<<<"4", "d", "0", "1", "0", "1">>, [country |-> <<"S", "e", "r", "b", "i", "a">>, description |-> <<"F", "a", "l", "c", "o", "n", " ", "9", "0", "0", " ", "V", "I", "P">>,
        registration |-> <<"Y", "U", "-", "F", "S", "S">>, type |-> <<"F", "9", "0", "0">>]>>,
    <<<<"4", "d", "0", "1", "0", "2">>, [country |-> <<"S", "e", "r", "b", "i", "a">>, description |-> <<"E", "R", "J", "-", "1", "3", "5", " ", "V", "I", "P">>,
        registration |-> <<"Y", "U", "-", "S", "R", "B">>, type |-> <<"E", "1", "3", "5">>]>>,
    <<<<"5", "0", "1", "9", "0", "1">>, [country |-> <<"A", "l", "b", "a", "n", "i", "a">>, description |-> <<"A", "S", "3", "6", "5", " ", "D", "a", "u", "p", "h", "i", "n", " ", "V", "I", "P">>,
        registration |-> <<"Z", "A", "-", "B", "D", "F">>, type |-> <<"A", "S", "6", "5">>]>>,
    <<<<"4", "d", "0", "3", "0", "1">>, [country |-> <<"N", ".", " ", "M", "a", "c", "e", "d", "o", "n", "i", "a">>, description |-> <<"L", "J", "-", "6", "0", " ", "L", "e", "a", "r", "j", "e", "t", " ", "V", "I", "P">>,
        registration |-> <<"Z", "3", "-", "M", "K", "D">>, type |-> <<"L", "J", "6", "0">>]>>,
    <<<<"4", "d", "0", "2", "0", "1">>, [country |-> <<"M", "o", "n", "t", "e", "n", "e", "g", "r", "o">>, description |-> <<"F", "a", "l", "c", "o", "n", " ", "5", "0", " ", "V", "I", "P">>,
        registration |-> <<"4", "O", "-", "M", "N", "E">>, type |-> <<"F", "A", "5", "0">>]>>,
    <<<<"4", "d", "0", "4", "0", "1">>, [country |-> <<"B", "o", "s", "n", "i", "a">>, description |-> <<"H", "U", "E", "Y", " ", "I", "I", " ", "V", "I", "P">>,
        registration |-> <<"T", "9", "-", "H", "A", "D">>, type |-> <<"H", "U", "E", "Y">>]>>,
    <<<<"4", "b", "0", "5", "0", "1">>, [country |-> <<"L", "u", "x", "e", "m", "b", "o", "u", "r", "g">>, description |-> <<"L", "J", "-", "4", "5", " ", "L", "e", "a", "r", "j", "e", "t", " ", "V", "I", "P">>,
        registration |-> <<"N", "A", "T", "-", "0", "1">>, type |-> <<"L", "J", "4", "5">>]>>,
    <<<<"4", "c", "c", "c", "0", "1">>, [country |-> <<"I", "c", "e", "l", "a", "n", "d">>, description |-> <<"D", "H", "C", "-", "8", " ", "C", "o", "a", "s", "t", " ", "G", "u", "a", "r", "d">>,
        registration |-> <<"T", "F", "-", "S", "I", "F">>, type |-> <<"D", "H", "8", "D">>]>>,
    <<<<"4", "d", "8", "0", "0", "1">>, [country |-> <<"C", "y", "p", "r", "u", "s">>, description |-> <<"A", "3", "1", "9", "C", "J", " ", "G", "o", "v", "e", "r", "n", "m", "e", "n", "t">>,
        registration |-> <<"5", "B", "-", "C", "Y", "P">>, type |-> <<"A", "3", "1", "9">>]>>,
    <<<<"4", "d", "9", "0", "0", "1">>, [country |-> <<"M", "a", "l", "t", "a">>, description |-> <<"B", "2", "0", "0", " ", "K", "i", "n", "g", " ", "A", "i", "r", " ", "V", "I", "P">>,
        registration |-> <<"A", "S", "1", "4", "2", "8">>, type |-> <<"B", "E", "2", "0">>]>>
  >>

VIP_CALLSIGN_PATTERNS_LITERAL ==
  <<
    <<<<"A", "F", "1">>, <<"U", "S", "A">>>>,
    <<<<"A", "F", "2">>, <<"U", "S", "A">>>>,
    <<<<"S", "A", "M">>, <<"U", "S", "A">>>>,
    <<<<"E", "X", "E", "C">>, <<"U", "S", "A">>>>,
    <<<<"V", "E", "N", "U", "S">>, <<"U", "S", "A">>>>,
    <<<<"R", "S", "D">>, <<"R", "u", "s", "s", "i", "a">>>>,
    <<<<"R", "O", "S", "S", "I", "Y", "A">>, <<"R", "u", "s", "s", "i", "a">>>>,
    <<<<"R", "F", "F">>, <<"R", "u", "s", "s", "i", "a">>>>,
    <<<<"R", "U", "S", "S">>, <<"R", "u", "s", "s", "i", "a">>>>,
    <<<<"R", "F", "A", "F">>, <<"R", "u", "s", "s", "i", "a">>>>,
    <<<<"C", "Z", "A", "F">>, <<"C", "z", "e", "c", "h", " ", "R", "e", "p">>>>,
    <<<<"C", "E", "F">>, <<"C", "z", "e", "c", "h", " ", "R", "e", "p">>>>,
    <<<<"C", "Z", "A">>, <<"C", "z", "e", "c", "h", " ", "R", "e", "p">>>>,
    <<<<"U", "K", "R">>, <<"U", "k", "r", "a", "i", "n", "e">>>>,
    <<<<"U", "K", "R", "A", "I", "N", "A">>, <<"U", "k", "r", "a", "i", "n", "e">>>>,
    <<<<"U", "K", "F">>, <<"U", "k", "r", "a", "i", "n", "e">>>>,
    <<<<"C", "C", "A">>, <<"C", "h", "i", "n", "a">>>>,
    <<<<"C", "H", "N">>, <<"C", "h", "i", "n", "a">>>>,
    <<<<"C", "H", "I", "N", "A">>, <<"C", "h", "i", "n", "a">>>>,
    <<<<"C", "X", "A">>, <<"C", "h", "i", "n", "a">>>>,
    <<<<"K", "O", "R">>, <<"N", "o", "r", "t", "h", " ", "K", "o", "r", "e", "a">>>>,
    <<<<"P", "R", "K">>, <<"N", "o", "r", "t", "h", " ", "K", "o", "r", "e", "a">>>>,
    <<<<"R", "R", "R">>, <<"U", "K">>>>,
    <<<<"R", "F", "R">>, <<"U", "K">>>>,
    <<<<"K", "R", "F">>, <<"U", "K">>>>,
    <<<<"K", "I", "T", "T", "Y">>, <<"U", "K">>>>,
    <<<<"A", "S", "C", "O", "T">>, <<"U", "K">>>>,
    <<<<"C", "O", "T", "A", "M">>, <<"F", "r", "a", "n", "c", "e">>>>,
    <<<<"C", "T", "M">>, <<"F", "r", "a", "n", "c", "e">>>>,
    <<<<"F", "A", "F">>, <<"F", "r", "a", "n", "c", "e">>>>,
    <<<<"F", "R", "F">>, <<"F", "r", "a", "n", "c", "e">>>>,
    <<<<"G", "A", "F">>, <<"G", "e", "r", "m", "a", "n", "y">>>>,
    <<<<"G", "A", "F", "T", "T">>, <<"G", "e", "r", "m", "a", "n", "y">>>>,
    <<<<"G", "E", "R", "M">>, <<"G", "e", "r", "m", "a", "n", "y">>>>,
    <<<<"I", "A", "M">>, <<"I", "t", "a", "l", "y">>>>,
    <<<<"I", "T", "A", "F">>, <<"I", "t", "a", "l", "y">>>>,
    <<<<"A", "M", "E">>, <<"S", "p", "a", "i", "n">>>>,
    <<<<"S", "P", "A", "N", "I", "S", "H">>, <<"S", "p", "a", "i", "n">>>>,
    <<<<"S", "P", "A">>, <<"S", "p", "a", "i", "n">>>>,
    <<<<"P", "L", "F">>, <<"P", "o", "l", "a", "n", "d">>>>,
    <<<<"P", "O", "L", "I", "S", "H">>, <<"P", "o", "l", "a", "n", "d">>>>,
    <<<<"P", "O", "L">>, <<"P", "o", "l", "a", "n", "d">>>>,
    <<<<"N", "A", "F">>, <<"N", "e", "t", "h", "e", "r", "l", "a", "n", "d", "s">>>>,
    <<<<"N", "L", "D">>, <<"N", "e", "t", "h", "e", "r", "l", "a", "n", "d", "s">>>>,
    <<<<"B", "A", "F">>, <<"B", "e", "l", "g", "i", "u", "m">>>>,
    <<<<"B", "E", "L">>, <<"B", "e", "l", "g", "i", "u", "m">>>>,
    <<<<"A", "U", "A">>, <<"A", "u", "s", "t", "r", "i", "a">>>>,
    <<<<"O", "S", "T">>, <<"A", "u", "s", "t", "r", "i", "a">>>>,
    <<<<"S", "U", "I">>, <<"S", "w", "i", "t", "z", "e", "r", "l", "a", "n", "d">>>>,
    <<<<"H", "E", "B">>, <<"S", "w", "i", "t", "z", "e", "r", "l", "a", "n", "d">>>>,
    <<<<"S", "V", "F">>, <<"S", "w", "e", "d", "e", "n">>>>,
    <<<<"S", "W", "E">>, <<"S", "w", "e", "d", "e", "n">>>>,
    <<<<"N", "O", "W">>, <<"N", "o", "r", "w", "a", "y">>>>,
    <<<<"N", "O", "R">>, <<"N", "o", "r", "w", "a", "y">>>>,
    <<<<"D", "A", "F">>, <<"D", "e", "n", "m", "a", "r", "k">>>>,
    <<<<"D", "N", "K">>, <<"D", "e", "n", "m", "a", "r", "k">>>>,
    <<<<"F", "A", "F">>, <<"F", "i", "n", "l", "a", "n", "d">>>>,
    <<<<"F", "I", "N">>, <<"F", "i", "n", "l", "a", "n", "d">>>>,
    <<<<"F", "I", "N", "N", "A", "F">>, <<"F", "i", "n", "l", "a", "n", "d">>>>,
    <<<<"P", "A", "F">>, <<"P", "o", "r", "t", "u", "g", "a", "l">>>>,
    <<<<"P", "O", "R">>, <<"P", "o", "r", "t", "u", "g", "a", "l">>>>,
    <<<<"H", "A", "F">>, <<"G", "r", "e", "e", "c", "e">>>>,
    <<<<"G", "R", "C">>, <<"G", "r", "e", "e", "c", "e">>>>,
    <<<<"H", "D", "F">>, <<"H", "u", "n", "g", "a", "r", "y">>>>,
    <<<<"H", "U", "N">>, <<"H", "u", "n", "g", "a", "r", "y">>>>,
    <<<<"R", "O", "F">>, <<"R", "o", "m", "a", "n", "i", "a">>>>,
    <<<<"R", "O", "U">>, <<"R", "o", "m", "a", "n", "i", "a">>>>,
    <<<<"B", "U", "F">>, <<"B", "u", "l", "g", "a", "r", "i", "a">>>>,
    <<<<"B", "G", "R">>, <<"B", "u", "l", "g", "a", "r", "i", "a">>>>,
    <<<<"H", "R", "Z">>, <<"C", "r", "o", "a", "t", "i", "a">>>>,
    <<<<"C", "R", "O">>, <<"C", "r", "o", "a", "t", "i", "a">>>>,
    <<<<"S", "V", "N">>, <<"S", "l", "o", "v", "e", "n", "i", "a">>>>,
    <<<<"S", "L", "O">>, <<"S", "l", "o", "v", "e", "n", "i", "a">>>>,
    <<<<"S", "L", "K">>, <<"S", "l", "o", "v", "a", "k", "i", "a">>>>,
    <<<<"S", "V", "K">>, <<"S", "l", "o", "v", "a", "k", "i", "a">>>>,
    <<<<"E", "S", "T">>, <<"E", "s", "t", "o", "n", "i", "a">>>>,
    <<<<"E", "E", "F">>, <<"E", "s", "t", "o", "n", "i", "a">>>>,
    <<<<"L", "A", "T">>, <<"L", "a", "t", "v", "i", "a">>>>,
    <<<<"L", "V", "A">>, <<"L", "a", "t", "v", "i", "a">>>>,
    <<<<"L", "Y", "F">>, <<"L", "i", "t", "h", "u", "a", "n", "i", "a">>>>,
    <<<<"L", "T", "U">>, <<"L", "i", "t", "h", "u", "a", "n", "i", "a">>>>,
    <<<<"I", "R", "L">>, <<"I", "r", "e", "l", "a", "n", "d">>>>,
    <<<<"T", "H", "K">>, <<"T", "u", "r", "k", "e", "y">>>>,
    <<<<"T", "U", "A", "F">>, <<"T", "u", "r", "k", "e", "y">>>>,
    <<<<"T", "C", "G", "F">>, <<"T", "u", "r", "k", "e", "y">>>>,
    <<<<"B", "R", "U">>, <<"B", "e", "l", "a", "r", "u", "s">>>>,
    <<<<"B", "L", "R">>, <<"B", "e", "l", "a", "r", "u", "s">>>>,
    <<<<"S", "R", "B">>, <<"S", "e", "r", "b", "i", "a">>>>,
    <<<<"Y", "U", "G">>, <<"S", "e", "r", "b", "i", "a">>>>,
    <<<<"A", "L", "B">>, <<"A", "l", "b", "a", "n", "i", "a">>>>,
    <<<<"M", "K", "D">>, <<"N", ".", " ", "M", "a", "c", "e", "d", "o", "n", "i", "a">>>>,
    <<<<"M", "N", "E">>, <<"M", "o", "n", "t", "e", "n", "e", "g", "r", "o">>>>,
    <<<<"B", "I", "H">>, <<"B", "o", "s", "n", "i", "a">>>>,
    <<<<"L", "U", "X">>, <<"L", "u", "x", "e", "m", "b", "o", "u", "r", "g">>>>,
    <<<<"I", "C", "E">>, <<"I", "c", "e", "l", "a", "n", "d">>>>,
    <<<<"C", "Y", "P">>, <<"C", "y", "p", "r", "u", "s">>>>,
    <<<<"M", "L", "T">>, <<"M", "a", "l", "t", "a">>>>
  >>

country_names_v1_LITERAL ==
  <<
    <<<<"U", "S">>, <<"U", "S", "A">>>>,
    <<<<"G", "B">>, <<"U", "K">>>>,
    <<<<"D", "E">>, <<"G", "e", "r", "m", "a", "n", "y">>>>,
    <<<<"F", "R">>, <<"F", "r", "a", "n", "c", "e">>>>,
    <<<<"I", "T">>, <<"I", "t", "a", "l", "y">>>>,
    <<<<"E", "S">>, <<"S", "p", "a", "i", "n">>>>,
    <<<<"P", "L">>, <<"P", "o", "l", "a", "n", "d">>>>,
    <<<<"C", "Z">>, <<"C", "z", "e", "c", "h", "i", "a">>>>,
    <<<<"U", "A">>, <<"U", "k", "r", "a", "i", "n", "e">>>>,
    <<<<"R", "U">>, <<"R", "u", "s", "s", "i", "a">>>>,
    <<<<"C", "N">>, <<"C", "h", "i", "n", "a">>>>,
    <<<<"K", "P">>, <<"N", ".", "K", "o", "r", "e", "a">>>>,
    <<<<"N", "L">>, <<"N", "e", "t", "h", "e", "r", "l", "a", "n", "d", "s">>>>,
    <<<<"B", "E">>, <<"B", "e", "l", "g", "i", "u", "m">>>>,
    <<<<"A", "T">>, <<"A", "u", "s", "t", "r", "i", "a">>>>,
    <<<<"C", "H">>, <<"S", "w", "i", "t", "z", "e", "r", "l", "a", "n", "d">>>>,
    <<<<"S", "E">>, <<"S", "w", "e", "d", "e", "n">>>>,
    <<<<"N", "O">>, <<"N", "o", "r", "w", "a", "y">>>>,
    <<<<"D", "K">>, <<"D", "e", "n", "m", "a", "r", "k">>>>,
    <<<<"F", "I">>, <<"F", "i", "n", "l", "a", "n", "d">>>>,
    <<<<"P", "T">>, <<"P", "o", "r", "t", "u", "g", "a", "l">>>>,
    <<<<"G", "R">>, <<"G", "r", "e", "e", "c", "e">>>>,
    <<<<"H", "U">>, <<"H", "u", "n", "g", "a", "r", "y">>>>,
    <<<<"R", "O">>, <<"R", "o", "m", "a", "n", "i", "a">>>>,
    <<<<"B", "G">>, <<"B", "u", "l", "g", "a", "r", "i", "a">>>>,
    <<<<"H", "R">>, <<"C", "r", "o", "a", "t", "i", "a">>>>,
    <<<<"S", "I">>, <<"S", "l", "o", "v", "e", "n", "i", "a">>>>,
    <<<<"S", "K">>, <<"S", "l", "o", "v", "a", "k", "i", "a">>>>,
    <<<<"E", "E">>, <<"E", "s", "t", "o", "n", "i", "a">>>>,
    <<<<"L", "V">>, <<"L", "a", "t", "v", "i", "a">>>>,
    <<<<"L", "T">>, <<"L", "i", "t", "h", "u", "a", "n", "i", "a">>>>,
    <<<<"I", "E">>, <<"I", "r", "e", "l", "a", "n", "d">>>>,
    <<<<"T", "R">>, <<"T", "u", "r", "k", "e", "y">>>>,
    <<<<"B", "Y">>, <<"B", "e", "l", "a", "r", "u", "s">>>>,
    <<<<"R", "S">>, <<"S", "e", "r", "b", "i", "a">>>>,
    <<<<"A", "L">>, <<"A", "l", "b", "a", "n", "i", "a">>>>,
    <<<<"M", "K">>, <<"N", ".", "M", "a", "c", "e", "d", "o", "n", "i", "a">>>>,
    <<<<"M", "E">>, <<"M", "o", "n", "t", "e", "n", "e", "g", "r", "o">>>>,
    <<<<"B", "A">>, <<"B", "o", "s", "n", "i", "a">>>>,
    <<<<"L", "U">>, <<"L", "u", "x", "e", "m", "b", "o", "u", "r", "g">>>>,
    <<<<"I", "S">>, <<"I", "c", "e", "l", "a", "n", "d">>>>,
    <<<<"C", "Y">>, <<"C", "y", "p", "r", "u", "s">>>>,
    <<<<"M", "T">>, <<"M", "a", "l", "t", "a">>>>,
    <<<<"C", "A">>, <<"C", "a", "n", "a", "d", "a">>>>,
    <<<<"M", "X">>, <<"M", "e", "x", "i", "c", "o">>>>,
    <<<<"J", "P">>, <<"J", "a", "p", "a", "n">>>>,
    <<<<"K", "R">>, <<"S", ".", "K", "o", "r", "e", "a">>>>,
    <<<<"A", "U">>, <<"A", "u", "s", "t", "r", "a", "l", "i", "a">>>>,
    <<<<"N", "Z">>, <<"N", "e", "w", " ", "Z", "e", "a", "l", "a", "n", "d">>>>,
    <<<<"B", "R">>, <<"B", "r", "a", "z", "i", "l">>>>,
    <<<<"A", "R">>, <<"A", "r", "g", "e", "n", "t", "i", "n", "a">>>>,
    <<<<"I", "N">>, <<"I", "n", "d", "i", "a">>>>,
    <<<<"S", "A">>, <<"S", "a", "u", "d", "i", " ", "A", "r", "a", "b", "i", "a">>>>,
    <<<<"A", "E">>, <<"U", "A", "E">>>>,
    <<<<"I", "L">>, <<"I", "s", "r", "a", "e", "l">>>>,
    <<<<"E", "G">>, <<"E", "g", "y", "p", "t">>>>
  >>

country_names_v2_LITERAL ==
  <<
    <<<<"U", "S">>, <<"U", "S", "A">>>>,
    <<<<"G", "B">>, <<"U", "K">>>>,
    <<<<"D", "E">>, <<"G", "e", "r", "m", "a", "n", "y">>>>,
    <<<<"F", "R">>, <<"F", "r", "a", "n", "c", "e">>>>,
    <<<<"I", "T">>, <<"I", "t", "a", "l", "y">>>>,
    <<<<"E", "S">>, <<"S", "p", "a", "i", "n">>>>,
    <<<<"P", "L">>, <<"P", "o", "l", "a", "n", "d">>>>,
    <<<<"C", "Z">>, <<"C", "z", "e", "c", "h", "i", "a">>>>,
    <<<<"U", "A">>, <<"U", "k", "r", "a", "i", "n", "e">>>>,
    <<<<"R", "U">>, <<"R", "u", "s", "s", "i", "a">>>>,
    <<<<"C", "N">>, <<"C", "h", "i", "n", "a">>>>,
    <<<<"K", "P">>, <<"N", ".", "K", "o", "r", "e", "a">>>>,
    <<<<"N", "L">>, <<"N", "e", "t", "h", "e", "r", "l", "a", "n", "d", "s">>>>,
    <<<<"B", "E">>, <<"B", "e", "l", "g", "i", "u", "m">>>>,
    <<<<"A", "T">>, <<"A", "u", "s", "t", "r", "i", "a">>>>,
    <<<<"C", "H">>, <<"S", "w", "i", "t", "z", "e", "r", "l", "a", "n", "d">>>>,
    <<<<"S", "E">>, <<"S", "w", "e", "d", "e", "n">>>>,
    <<<<"N", "O">>, <<"N", "o", "r", "w", "a", "y">>>>,
    <<<<"D", "K">>, <<"D", "e", "n", "m", "a", "r", "k">>>>,
    <<<<"F", "I">>, <<"F", "i", "n", "l", "a", "n", "d">>>>,
    <<<<"E", "G">>, <<"E", "g", "y", "p", "t">>>>,
    <<<<"S", "A">>, <<"S", "a", "u", "d", "i">>>>,
    <<<<"A", "E">>, <<"U", "A", "E">>>>,
    <<<<"I", "L">>, <<"I", "s", "r", "a", "e", "l">>>>,
    <<<<"T", "R">>, <<"T", "u", "r", "k", "e", "y">>>>,
    <<<<"J", "P">>, <<"J", "a", "p", "a", "n">>>>,
    <<<<"K", "R">>, <<"S", ".", "K", "o", "r", "e", "a">>>>,
    <<<<"A", "U">>, <<"A", "u", "s", "t", "r", "a", "l", "i", "a">>>>,
    <<<<"C", "A">>, <<"C", "a", "n", "a", "d", "a">>>>,
    <<<<"M", "X">>, <<"M", "e", "x", "i", "c", "o">>>>,
    <<<<"B", "R">>, <<"B", "r", "a", "z", "i", "l">>>>,
    <<<<"Z", "A">>, <<"S", ".", "A", "f", "r", "i", "c", "a">>>>,
    <<<<"Z", "W">>, <<"Z", "i", "m", "b", "a", "b", "w", "e">>>>,
    <<<<"B", "Y">>, <<"B", "e", "l", "a", "r", "u", "s">>>>,
    <<<<"S", "Y">>, <<"S", "y", "r", "i", "a">>>>,
    <<<<"I", "R">>, <<"I", "r", "a", "n">>>>,
    <<<<"K", "Z">>, <<"K", "a", "z", "a", "k", "h", "s", "t", "a", "n">>>>,
    <<<<"U", "Z">>, <<"U", "z", "b", "e", "k", "i", "s", "t", "a", "n">>>>,
    <<<<"T", "M">>, <<"T", "u", "r", "k", "m", "e", "n", "i", "s", "t", "a", "n">>>>
  >>

PRESIDENTIAL_AIRCRAFT == DictLiteral(PRESIDENTIAL_AIRCRAFT_LITERAL)
VIP_CALLSIGN_PATTERNS == DictLiteral(VIP_CALLSIGN_PATTERNS_LITERAL)
country_names_v1 == DictLiteral(country_names_v1_LITERAL)
country_names_v2 == DictLiteral(country_names_v2_LITERAL)

\* ADSBOneClient.min_request_interval = 1.0
min_request_interval == 1 * TicksPerUnit

GROUND == Str(<<"g", "r", "o", "u", "n", "d">>)
NA == <<"N", "/", "A">>

\* ------------------------------------------------------------------- state

VARIABLES
  variant,            \* 1: poc_tracker.py, 2: poc_tracker2.py
  RG_AVAILABLE,       \* import reverse_geocoder succeeded
  RICH_AVAILABLE,     \* import rich succeeded
  now,                \* time.time()
  last_request_time,  \* ADSBOneClient.last_request_time
  issued,             \* the times at which session.get was called, oldest first
  response,           \* what the last fetch returned (main's response)
  raised,             \* the exception that left the last call, "" if none
  ended,              \* how the last HTTP exchange ended, "" before the first
  _location_cache,    \* the module-level geo cache
  geo_log,            \* every get_location call so far: arguments, result, lookup
  presidential,       \* variant 1: the list find_presidential_aircraft returned
  seen_hex,           \* variant 1: seen_hex when find_presidential_aircraft returned
  matched,            \* variant 1: the callsign-pattern scans of the last call
  database,           \* variant 2: load_aircraft_database's result
  tracked,            \* variant 2: main's tracked list
  tables,             \* variant 2: the lists shown: govt, spy_sf, military
  pc,                 \* where main is
  threads             \* the threads that share one ADSBOneClient, <<>> if none

vars ==
  <<variant, RG_AVAILABLE, RICH_AVAILABLE, now, last_request_time, issued,
    response, raised, ended, _location_cache, geo_log, presidential, seen_hex,
    matched, database, tracked, tables, pc, threads>>

\* ------------------------------------------------------------ get_location

\* f"{x:.2f}" of a coordinate given in thousandths: the sign and the
\* hundredths, rounded half to even ("-0.00" keeps its sign).
Fmt2(x) ==
  LET a == IF x < 0 THEN 0 - x ELSE x
      q == a \div 10
      r == a % 10
      h == IF r > 5 \/ (r = 5 /\ q % 2 = 1) THEN q + 1 ELSE q
  IN <<IF x < 0 THEN "-" ELSE "", h>>

\* cache_key = f"{lat:.2f},{lon:.2f}"
cache_key(lat, lon) == <<Fmt2(lat[2]), Fmt2(lon[2])>>

\* What rg.search can do on one call: raise, return no result, or return a
\* result with a country code.
RAISES == [kind |-> "raise"]
NORESULT == [kind |-> "empty"]
Found(cc) == [kind |-> "found", cc |-> cc]
GeoOutcomes == {RAISES, NORESULT, Found(<<"C", "Z">>), Found(<<"X", "X">>)}

country_names == IF variant = 1 THEN country_names_v1 ELSE country_names_v2

\* The geo state a call works on: g.cache is _location_cache, g.log is geo_log.
\* A log entry tells whether rg.search was called (searched), what it did if
\* it was (did: "raise", "empty" or "found", "" if it was not called) and
\* whether the key was in the cache when the call returned (cached).
Logged(g, cache, lat, lon, ret, did, cached) ==
  [cache |-> cache,
   log |-> Append(g.log, [lat |-> lat, lon |-> lon, ret |-> ret,
                          searched |-> (did # ""), did |-> did,
                          cached |-> cached])]

\* A lookup that finds no key in the cache, whatever it holds.
CacheHit_never(key, cache) == FALSE

\* if cache_key in _location_cache
CacheHit(key, cache) == key \in DOMAIN cache

\* A store that keeps nothing but the new entry.
CacheStore_only(cache, key, location) == (key :> location)

\* _location_cache[cache_key] = location
CacheStore(cache, key, location) == (key :> location) @@ cache

\* A failed lookup that answers with a placeholder name.
no_location_placeholder(lat, lon, g, outcome) ==
  [ret |-> <<"U", "n", "k", "n", "o", "w", "n">>,
   g |-> Logged(g, g.cache, lat, lon, <<"U", "n", "k", "n", "o", "w", "n">>,
                outcome.kind, FALSE)]

\* A failed lookup that stores the empty answer under the key.
no_location_stores_empty(lat, lon, g, outcome) ==
  [ret |-> <<>>,
   g |-> Logged(g, CacheStore(g.cache, cache_key(lat, lon), <<>>), lat, lon, <<>>,
                outcome.kind, TRUE)]

\* except Exception: pass, and the return "" that ends get_location: rg.search
\* raised or returned nothing.
no_location(lat, lon, g, outcome) ==
  [ret |-> <<>>, g |-> Logged(g, g.cache, lat, lon, <<>>, outcome.kind, FALSE)]

\* get_location(lat, lon) with rg.search doing `outcome` if it is called:
\* the returned string and the geo state afterwards.
get_location(lat, lon, g, outcome) ==
  IF ~RG_AVAILABLE \/ lat = None \/ lon = None
  THEN [ret |-> <<>>, g |-> Logged(g, g.cache, lat, lon, <<>>, "", FALSE)]
  ELSE LET key == cache_key(lat, lon)
       IN IF CacheHit(key, g.cache)
          THEN [ret |-> g.cache[key],
                g |-> Logged(g, g.cache, lat, lon, g.cache[key], "", TRUE)]
          ELSE IF outcome.kind = "found"
               THEN LET location == DictGet(country_names, outcome.cc, outcome.cc)
                    IN [ret |-> location,
                        g |-> Logged(g, CacheStore(g.cache, key, location),
                                     lat, lon, location, "found", TRUE)]
               ELSE no_location(lat, lon, g, outcome)

\* ---------------------------------------------------------- parse_aircraft

\* a or b, on strings
StrOr(a, b) == IF a # <<>> THEN a ELSE b

\* The identifier in the letter case the source sent it in.
hex_of_as_sent(ac) == Get(ac, "hex", <<>>)

\* An identifier normalised to upper case.
hex_of_upper(ac) == Upper(Get(ac, "hex", <<>>))

\* An identifier that falls back to the callsign when there is no hex.
hex_of_or_flight(ac) ==
  IF Get(ac, "hex", <<>>) = <<>> THEN Lower(Strip(Get(ac, "flight", <<>>)))
  ELSE Lower(Get(ac, "hex", <<>>))

\* hex_code = ac_data.get("hex", "").lower()
hex_of(ac) == Lower(Get(ac, "hex", <<>>))

\* altitude=ac_data.get("alt_baro") if ac_data.get("alt_baro") != "ground" else 0
altitude_of(ac_data) ==
  IF Get(ac_data, "alt_baro", None) # GROUND THEN Get(ac_data, "alt_baro", None)
  ELSE Num(0)

\* An on_ground that also takes the altitude 0 for the ground.
on_ground_of_or_zero(ac_data) ==
  Get(ac_data, "alt_baro", None) \in {GROUND, Num(0)}

\* on_ground=ac_data.get("alt_baro") == "ground"
on_ground_of(ac_data) == Get(ac_data, "alt_baro", None) = GROUND

\* parse_aircraft(ac_data, known_aircraft): the AircraftInfo and the geo state.
\* heading, vertical_rate, squawk and last_seen are carried over exactly as
\* ground_speed is and are left out.  raw is no field of AircraftInfo: it
\* keeps the raw track the entry was built from.
parse_aircraft(ac_data, known_aircraft, g, outcome) ==
  LET hex_code == hex_of(ac_data)
      known == DictGet(known_aircraft, hex_code, <<>>)
      lat == Get(ac_data, "lat", None)
      lon == Get(ac_data, "lon", None)
      loc == IF Truthy(lat) /\ Truthy(lon)
             THEN get_location(lat, lon, g, outcome)
             ELSE [ret |-> <<>>, g |-> g]
  IN [info |->
        [hex_code |-> Upper(hex_code),
         callsign |-> StrOr(Strip(Get(ac_data, "flight", <<>>)), NA),
         registration |-> StrOr(Get(ac_data, "r", <<>>), Get(known, "registration", NA)),
         aircraft_type |-> StrOr(Get(ac_data, "t", <<>>), Get(known, "type", NA)),
         country |-> Get(known, "country", <<"U", "n", "k", "n", "o", "w", "n">>),
         description |-> Get(known, "description",
                             <<"M", "i", "l", "i", "t", "a", "r", "y", " ",
                               "A", "i", "r", "c", "r", "a", "f", "t">>),
         latitude |-> lat,
         longitude |-> lon,
         altitude |-> altitude_of(ac_data),
         ground_speed |-> Get(ac_data, "gs", None),
         on_ground |-> on_ground_of(ac_data),
         over_country |-> loc.ret,
         raw |-> ac_data],
      g |-> loc.g]

\* ---------------------------------------------- find_presidential_aircraft

\* callsign = ac.get("flight", "").strip().upper()
callsign_of(ac) == Upper(Strip(Get(ac, "flight", <<>>)))

\* for pattern, country in VIP_CALLSIGN_PATTERNS.items():
\*     if callsign.startswith(pattern): matched_country = country; break
RECURSIVE scan_patterns(_, _, _)
scan_patterns(items, callsign, i) ==
  IF i > Len(items) THEN <<>>
  ELSE IF StartsWith(callsign, items[i][1]) THEN items[i][2]
       ELSE scan_patterns(items, callsign, i + 1)

match_callsign(callsign) == scan_patterns(VIP_CALLSIGN_PATTERNS, callsign, 1)

\* A loop that skips no track.
already_seen_never(hex_code, seen) == FALSE

\* if hex_code in seen_hex: continue
already_seen(hex_code, seen) == hex_code \in seen

\* A Check 2 that puts the entry at the front of the list.
emit_matched_at_front(ac, matched_country, st, outcome) ==
  LET p == parse_aircraft(ac, PRESIDENTIAL_AIRCRAFT, st.g, outcome)
      info == [p.info EXCEPT
                 !.country = matched_country,
                 !.description = <<"V", "I", "P", " ", "F", "l", "i", "g", "h", "t", " ", "(">> \o callsign_of(ac) \o <<")">>]
  IN [st EXCEPT !.presidential = <<info>> \o @,
                !.seen_hex = @ \cup {hex_of(ac)},
                !.g = p.g]

\* Check 2: the callsign matched a pattern of matched_country.
emit_matched(ac, matched_country, st, outcome) ==
  LET p == parse_aircraft(ac, PRESIDENTIAL_AIRCRAFT, st.g, outcome)
      info == [p.info EXCEPT
                 !.country = matched_country,
                 !.description = <<"V", "I", "P", " ", "F", "l", "i", "g", "h", "t", " ", "(">>
                                 \o callsign_of(ac) \o <<")">>]
  IN [st EXCEPT !.presidential = Append(@, info),
                !.seen_hex = @ \cup {hex_of(ac)},
                !.g = p.g]

\* A Check 1 that lets a matching callsign pattern override the registry.
emit_known_unless_pattern(ac, st, outcome) ==
  LET p == parse_aircraft(ac, PRESIDENTIAL_AIRCRAFT, st.g, outcome)
      matched_country == match_callsign(callsign_of(ac))
  IN IF matched_country # <<>> THEN emit_matched(ac, matched_country, st, outcome)
     ELSE [st EXCEPT !.presidential = Append(@, p.info),
                     !.seen_hex = @ \cup {hex_of(ac)},
                     !.g = p.g]

\* Check 1: the track is a known aircraft.
emit_known(ac, st, outcome) ==
  LET p == parse_aircraft(ac, PRESIDENTIAL_AIRCRAFT, st.g, outcome)
  IN [st EXCEPT !.presidential = Append(@, p.info),
                !.seen_hex = @ \cup {hex_of(ac)},
                !.g = p.g]

\* A loop that counts a track it does not emit as seen.
skip_track_marks_seen(hex_code, st) == [st EXCEPT !.seen_hex = @ \cup {hex_code}]

\* if matched_country: has no else: a track that is neither registered nor
\* matched leaves presidential and seen_hex as they are.
skip_track(hex_code, st) == st

\* One iteration of the loop over aircraft_list.
classify_track(ac, st, outcome) ==
  LET hex_code == hex_of(ac)
      callsign == callsign_of(ac)
  IN IF already_seen(hex_code, st.seen_hex) THEN st
     ELSE IF DictHas(PRESIDENTIAL_AIRCRAFT, hex_code) THEN emit_known(ac, st, outcome)
     ELSE LET matched_country == match_callsign(callsign)
              scanned == [st EXCEPT !.matched =
                            Append(@, [hex |-> hex_code,
                                       flight |-> Get(ac, "flight", <<>>),
                                       country |-> matched_country])]
          IN IF matched_country # <<>>
             THEN emit_matched(ac, matched_country, scanned, outcome)
             ELSE skip_track(hex_code, scanned)

RECURSIVE classify_from(_, _, _, _)
classify_from(aircraft_list, i, st, outcomes) ==
  IF i > Len(aircraft_list) THEN st
  ELSE classify_from(aircraft_list, i + 1,
                     classify_track(aircraft_list[i], st, outcomes[i]), outcomes)

\* A classification that starts from the seen set the last call left.
find_presidential_aircraft_keeps_seen(api_response, g, outcomes) ==
  classify_from(Get(api_response, "ac", <<>>), 1,
                [presidential |-> <<>>, seen_hex |-> seen_hex, matched |-> <<>>, g |-> g],
                outcomes)

\* find_presidential_aircraft(api_response), rg.search doing outcomes[i] if
\* it is called for the i-th track.
find_presidential_aircraft(api_response, g, outcomes) ==
  classify_from(Get(api_response, "ac", <<>>), 1,
                [presidential |-> <<>>, seen_hex |-> {}, matched |-> <<>>, g |-> g],
                outcomes)

\* ------------------------------------------------- display_rich's ordering

\* The printable ASCII characters in code point order: ord(c) - 31.  The
\* quote, the backslash and the backquote, which no string of the model
\* holds, are spelled out.
ASCII ==
  <<" ", "!", "QUOTE", "#", "$", "%", "&", "'", "(", ")", "*", "+", ",", "-", ".", "/",
    "0", "1", "2", "3", "4", "5", "6", "7", "8", "9", ":", ";", "<", "=", ">", "?",
    "@", "A", "B", "C", "D", "E", "F", "G", "H", "I", "J", "K", "L", "M", "N", "O",
    "P", "Q", "R", "S", "T", "U", "V", "W", "X", "Y", "Z", "[", "BACKSLASH", "]", "^", "_",
    "BACKQUOTE", "a", "b", "c", "d", "e", "f", "g", "h", "i", "j", "k", "l", "m", "n", "o",
    "p", "q", "r", "s", "t", "u", "v", "w", "x", "y", "z", "{", "|", "}", "~">>
Ord(c) == CHOOSE i \in 1..Len(ASCII) : ASCII[i] = c

\* a < b on strings: by code point at the first difference, a proper prefix first.
StrLess(a, b) ==
  \E i \in 1..Len(b) :
    /\ \A j \in 1..(i - 1) : j <= Len(a) /\ a[j] = b[j]
    /\ i - 1 <= Len(a)
    /\ (i > Len(a) \/ Ord(a[i]) < Ord(b[i]))

\* A key without the priority tier.
sort_key_no_tier(x) == <<0, x.country, x.description>>

\* key=lambda x: (0 if x.country in PRIORITY_COUNTRIES else 1, x.country, x.description)
sort_key(x) ==
  <<IF x.country \in PRIORITY_COUNTRIES THEN 0 ELSE 1, x.country, x.description>>

\* k1 < k2 on the key tuples
KeyLess(k1, k2) ==
  \/ k1[1] < k2[1]
  \/ k1[1] = k2[1] /\ StrLess(k1[2], k2[2])
  \/ k1[1] = k2[1] /\ k1[2] = k2[2] /\ StrLess(k1[3], k2[3])

\* A sort step that puts x in front of the elements equal to it.
insert_sorted_before_equals(sorted, x) ==
  LET n == Cardinality({i \in 1..Len(sorted) :
                          \A j \in 1..i : KeyLess(sort_key(sorted[j]), sort_key(x))})
  IN SubSeq(sorted, 1, n) \o <<x>> \o SubSeq(sorted, n + 1, Len(sorted))

\* list.sort(key=...) is stable: x goes behind every element that is not
\* greater than it.
insert_sorted(sorted, x) ==
  LET behind == {i \in 1..Len(sorted) : ~KeyLess(sort_key(x), sort_key(sorted[i]))}
      n == Cardinality({i \in 1..Len(sorted) :
                          \A j \in 1..i : j \in behind})
  IN SubSeq(sorted, 1, n) \o <<x>> \o SubSeq(sorted, n + 1, Len(sorted))

RECURSIVE sort_from(_, _, _)
sort_from(list, i, sorted) ==
  IF i > Len(list) THEN sorted
  ELSE sort_from(list, i + 1, insert_sorted(sorted, list[i]))

\* aircraft_list.sort(key=...)
list_sort(list) == sort_from(list, 1, <<>>)

\* --------------------------------------------------- variant 2: the catalog

TOP_PRIORITY_CATEGORIES == { <<"D", "i", "c", "t", "a", "t", "o", "r", " ", "A", "l", "e", "r", "t">>, <<"G", "o", "v", "e", "r", "n", "m", "e", "n", "t", "s">> }
HIGH_PRIORITY_CATEGORIES == { <<"O", "x", "c", "a", "r", "t">>, <<"S", "p", "e", "c", "i", "a", "l", " ", "F", "o", "r", "c", "e", "s">>, <<"G", "u", "n", "s", "h", "i", "p">> }

MILITARY_CATEGORIES ==
  { <<"U", "S", "A", "F">>, <<"R", "A", "F">>, <<"G", "A", "F">>, <<"U", "n", "i", "t", "e", "d", " ", "S", "t", "a", "t", "e", "s", " ", "N", "a", "v", "y">>, <<"U", "n", "i", "t", "e", "d", " ", "S", "t", "a", "t", "e", "s", " ", "M", "a", "r", "i", "n", "e", " ", "C", "o", "r", "p", "s">>,
    <<"R", "o", "y", "a", "l", " ", "N", "a", "v", "y", " ", "F", "l", "e", "e", "t", " ", "A", "i", "r", " ", "A", "r", "m">>, <<"O", "t", "h", "e", "r", " ", "N", "a", "v", "i", "e", "s">>, <<"O", "t", "h", "e", "r", " ", "A", "i", "r", " ", "F", "o", "r", "c", "e", "s">>, <<"C", "o", "a", "s", "t", "g", "u", "a", "r", "d">>,
    <<"T", "o", "y", " ", "S", "o", "l", "d", "i", "e", "r", "s">>, <<"Z", "o", "o", "m", "i", "e", "s">> }

\* key=lambda x: (x.category, x.operator)
table_key(x) == <<x.category, x.operator>>

\* k1 < k2 on the key tuples of display_table
TableKeyLess(k1, k2) ==
  \/ StrLess(k1[1], k2[1])
  \/ k1[1] = k2[1] /\ StrLess(k1[2], k2[2])

\* One step of the stable sort of display_table.
table_insert_sorted(sorted, x) ==
  LET behind == {i \in 1..Len(sorted) : ~TableKeyLess(table_key(x), table_key(sorted[i]))}
      n == Cardinality({i \in 1..Len(sorted) :
                          \A j \in 1..i : j \in behind})
  IN SubSeq(sorted, 1, n) \o <<x>> \o SubSeq(sorted, n + 1, Len(sorted))

RECURSIVE table_sort_from(_, _, _)
table_sort_from(list, i, sorted) ==
  IF i > Len(list) THEN sorted
  ELSE table_sort_from(list, i + 1, table_insert_sorted(sorted, list[i]))

\* display_table(aircraft_list, ...): the list after aircraft_list.sort(...)
display_table(aircraft_list) ==
  IF aircraft_list = <<>> THEN aircraft_list ELSE table_sort_from(aircraft_list, 1, <<>>)

\* govt = [ac for ac in aircraft_list if ac.category in TOP_PRIORITY_CATEGORIES]
govt_of(aircraft_list) ==
  LET top(ac) == ac.category \in TOP_PRIORITY_CATEGORIES
  IN SelectSeq(aircraft_list, top)

\* spy_sf = [ac for ac in aircraft_list if ac.category in HIGH_PRIORITY_CATEGORIES]
spy_sf_of(aircraft_list) ==
  LET high(ac) == ac.category \in HIGH_PRIORITY_CATEGORIES
  IN SelectSeq(aircraft_list, high)

\* military = [ac for ac in aircraft_list if ac.category in MILITARY_CATEGORIES]
military_of(aircraft_list) ==
  LET mil(ac) == ac.category \in MILITARY_CATEGORIES
  IN SelectSeq(aircraft_list, mil)

\* database[icao] = record
DictSet(d, k, v) ==
  IF DictHas(d, k) THEN [j \in 1..Len(d) |-> IF d[j][1] = k THEN <<k, v>> ELSE d[j]]
  ELSE Append(d, <<k, v>>)

\* One row of the csv.DictReader loop.  cmpg, tag1, tag2, tag3 and link are
\* copied from the row exactly as category is and are left out.
load_row(db, row) ==
  LET icao == Strip(Lower(Get(row, "$ICAO", <<>>)))
  IN IF icao # <<>> /\ Len(icao) = 6
     THEN DictSet(db, icao,
            [icao_hex |-> icao,
             registration |-> Get(row, "$Registration", <<>>),
             operator |-> Get(row, "$Operator", <<>>),
             aircraft_type |-> Get(row, "$Type", <<>>),
             icao_type |-> Get(row, "$ICAO Type", <<>>),
             category |-> Get(row, "Category", <<>>)])
     ELSE db

RECURSIVE load_rows(_, _, _)
load_rows(rows, i, db) ==
  IF i > Len(rows) THEN db
  ELSE load_rows(rows, i + 1, load_row(db, rows[i]))

\* load_aircraft_database(csv_path): csv is [exists |-> FALSE] or the rows
\* of the file.
load_aircraft_database(csv) ==
  IF ~csv.exists THEN <<>> ELSE load_rows(csv.rows, 1, <<>>)

\* s[:n]
Prefix(s, n) == SubSeq(s, 1, IF Len(s) < n THEN Len(s) ELSE n)

\* parse_tracked_aircraft(ac_data, db): <<>> for None or <<the
\* TrackedAircraft>>; and the geo state.  raw is no field of TrackedAircraft:
\* it keeps the raw track the entry was built from.
parse_tracked_aircraft(ac_data, db, g, outcome) ==
  LET hex_code == hex_of(ac_data)
  IN IF ~DictHas(db, hex_code) THEN [aircraft |-> <<>>, g |-> g]
     ELSE LET record == DictAt(db, hex_code)
              lat == Get(ac_data, "lat", None)
              lon == Get(ac_data, "lon", None)
              loc == IF Truthy(lat) /\ Truthy(lon)
                     THEN get_location(lat, lon, g, outcome)
                     ELSE [ret |-> <<>>, g |-> g]
          IN [aircraft |-> <<
                [icao_hex |-> Upper(hex_code),
                 callsign |-> StrOr(Strip(Get(ac_data, "flight", <<>>)), NA),
                 registration |-> record.registration,
                 operator |-> IF record.operator # <<>> THEN Prefix(record.operator, 35)
                              ELSE <<"U", "n", "k", "n", "o", "w", "n">>,
                 aircraft_type |-> IF record.aircraft_type # <<>>
                                   THEN Prefix(record.aircraft_type, 25) ELSE <<>>,
                 icao_type |-> StrOr(Get(ac_data, "t", <<>>), record.icao_type),
                 category |-> record.category,
                 latitude |-> lat,
                 longitude |-> lon,
                 altitude |-> altitude_of(ac_data),
                 ground_speed |-> Get(ac_data, "gs", None),
                 on_ground |-> on_ground_of(ac_data),
                 over_country |-> loc.ret,
                 raw |-> ac_data,
                 is_priority |-> (record.category \in TOP_PRIORITY_CATEGORIES),
                 is_high_interest |-> (record.category \in HIGH_PRIORITY_CATEGORIES)] >>,
              g |-> loc.g]

\* The matching loop of main: every track that parse_tracked_aircraft
\* resolves is appended to tracked.
RECURSIVE match_from(_, _, _, _, _)
match_from(aircraft_list, i, db, st, outcomes) ==
  IF i > Len(aircraft_list) THEN st
  ELSE LET p == parse_tracked_aircraft(aircraft_list[i], db, st.g, outcomes[i])
       IN match_from(aircraft_list, i + 1, db,
                     [tracked |-> IF p.aircraft # <<>>
                                  THEN Append(st.tracked, p.aircraft[1])
                                  ELSE st.tracked,
                      g |-> p.g],
                     outcomes)

\* ------------------------------------------------------------ ADSBOneClient

\* What one HTTP exchange can end in: a JSON object with the track list, a
\* body that is JSON but no object (null), or an exception.  A body that is
\* not JSON makes response.json() raise requests.exceptions.JSONDecodeError
\* (a RequestException) with requests >= 2.27 and json.JSONDecodeError (a
\* ValueError) before.
RequestException ==
  {"Timeout", "ConnectionError", "HTTPError", "requests.JSONDecodeError"}
TransportFailures == RequestException \cup {"json.JSONDecodeError"}
Transport(bodies) ==
  {[kind |-> "ok", ac |-> b] : b \in bodies}
    \cup {[kind |-> "null"]}
    \cup {[kind |-> "exc", exc |-> e] : e \in TransportFailures}

\* What json() makes of the body null: None.  It is written as a record, as
\* every value of response is, with a key no JSON object of the model has.
NoneBody == [None |-> TRUE]

\* A limiter whose sleep ends one tick early.
rate_limit_short_sleep(t, last, oversleep) ==
  LET elapsed == t - last
  IN IF elapsed < min_request_interval
     THEN t + (min_request_interval - elapsed) - 1
     ELSE t

\* A limiter that never sleeps.
rate_limit_no_sleep(t, last, oversleep) == t

\* _rate_limit() called at time t: the time at which it returns, time.sleep
\* overshooting by oversleep.
rate_limit(t, last, oversleep) ==
  LET elapsed == t - last
  IN IF elapsed < min_request_interval
     THEN t + (min_request_interval - elapsed) + oversleep
     ELSE t

\* except requests.RequestException as e
caught(e) == e \in RequestException

\* A fault result that still carries a track.
fault_result_with_track(e) == [ac |-> <<[hex |-> <<"a", "e", "0", "0", "1", "f">>]>>, msg |-> e]

\* return {"ac": [], "msg": str(e)}
fault_result(e) == [ac |-> <<>>, msg |-> e]

\* The try block of get_military_aircraft / get_aircraft_by_hex.
request(outcome) ==
  IF outcome.kind = "ok" THEN [ret |-> [ac |-> outcome.ac], exc |-> ""]
  ELSE IF outcome.kind = "null" THEN [ret |-> NoneBody, exc |-> ""]
  ELSE IF caught(outcome.exc) THEN [ret |-> fault_result(outcome.exc), exc |-> ""]
  ELSE [ret |-> <<>>, exc |-> outcome.exc]

\* ------------------------------------------------------------- the inputs

SeqsUpTo(S, n) == UNION {[1..k -> S] : k \in 0..n}

\* Raw tracks the data source may return.  ae001f is in PRESIDENTIAL_AIRCRAFT
\* (USA), abc123 is not; "FAF", "SAM" and "CTM" are callsign patterns,
\* "RCH" is none; the last two tracks have no identifier.
TrackPool ==
  { [hex |-> <<"a", "e", "0", "0", "1", "f">>, flight |-> <<"F", "A", "F", "1", "2", "3", " ", " ">>, lat |-> Num(50001), lon |-> Num(14999),
     alt_baro |-> Num(35000), gs |-> Num(450)],
    [hex |-> <<"A", "E", "0", "0", "1", "F">>, flight |-> <<"S", "A", "M", "4", "5">>, r |-> <<"N", "1">>, t |-> <<"B", "7", "4", "2">>,
     lat |-> Num(50004), lon |-> Num(15001), alt_baro |-> GROUND],
    [hex |-> <<"a", "b", "c", "1", "2", "3">>, flight |-> <<"R", "C", "H", "0", "0", "1">>, alt_baro |-> Num(1200), gs |-> Num(0)],
    [hex |-> <<"A", "B", "C", "1", "2", "3">>, flight |-> <<" ", "f", "a", "f", "7", "7", " ">>, lat |-> Num(50006), lon |-> Num(14999),
     alt_baro |-> Num(0)],
    [hex |-> <<"a", "b", "c", "1", "2", "3">>, flight |-> <<"C", "T", "M", "1">>, t |-> <<"A", "3", "3", "2">>, lat |-> Num(0), lon |-> Num(15001),
     alt_baro |-> GROUND, gs |-> Num(12)],
    [flight |-> <<"S", "A", "M", "7">>, lat |-> Num(50001), lon |-> Num(14999)],
    [hex |-> <<>>, flight |-> <<"F", "A", "F", "9">>] }

Snapshots == SeqsUpTo(TrackPool, MaxTracks)

\* The bodies the rate limiter's specification lets the source return.
RateBodies == SeqsUpTo({[hex |-> <<"a", "e", "0", "0", "1", "f">>, flight |-> <<"S", "A", "M", "4", "5">>]}, 1)

\* Arguments of direct get_location calls: the first two round to the same
\* key "50.00,15.00".
GeoArgs ==
  { <<Num(50001), Num(14999)>>, <<Num(50004), Num(15001)>>,
    <<Num(50006), Num(14999)>>, <<None, Num(14999)>>, <<Num(50001), None>> }

\* The catalog file: missing, or its rows.
RowPool ==
  { ("$ICAO" :> <<"A", "E", "0", "0", "1", "F">>) @@ ("$Operator" :> <<"U", "S", "A", "F">>) @@ ("Category" :> <<"D", "i", "c", "t", "a", "t", "o", "r", " ", "A", "l", "e", "r", "t">>)
      @@ ("$ICAO Type" :> <<"V", "C", "2", "5">>),
    ("$ICAO" :> <<" ", "a", "b", "c", "1", "2", "3", " ">>) @@ ("Category" :> <<"U", "S", "A", "F">>),
    ("$ICAO" :> <<"a", "b", "c", "1", "2">>) @@ ("Category" :> <<"O", "x", "c", "a", "r", "t">>),
    ("$ICAO" :> <<"z", "z", "z", "z", "z", "z">>) @@ ("Category" :> <<"G", "o", "v", "e", "r", "n", "m", "e", "n", "t", "s">>) }
CsvFiles ==
  {[exists |-> FALSE]} \cup {[exists |-> TRUE, rows |-> r] : r \in SeqsUpTo(RowPool, MaxRows)}

\* ------------------------------------------------------------------- Init

Init ==
  /\ variant \in {1, 2}
  /\ RG_AVAILABLE \in BOOLEAN
  /\ RICH_AVAILABLE \in BOOLEAN
  /\ now = StartTime
  /\ last_request_time = 0
  /\ issued = <<>>
  /\ response = <<>>
  /\ raised = ""
  /\ ended = ""
  /\ _location_cache = <<>>
  /\ geo_log = <<>>
  /\ presidential = <<>>
  /\ seen_hex = {}
  /\ matched = <<>>
  /\ database = <<>>
  /\ tracked = <<>>
  /\ tables = <<>>
  /\ pc = IF variant = 1 THEN "start" ELSE "load"
  /\ threads = <<>>

\* ---------------------------------------------------------------- actions

\* A fetch that stamps last_request_time only when the exchange succeeds.
fetch_stamp_on_success(bodies) ==
  \E oversleep \in 0..MaxOversleep, outcome \in Transport(bodies) :
    LET wake == rate_limit(now, last_request_time, oversleep)
        r == request(outcome)
    IN /\ wake <= MaxTime
       /\ last_request_time' = IF outcome.kind = "ok" THEN wake ELSE last_request_time
       /\ issued' = Append(issued, [called |-> now, at |-> wake,
                                    failed |-> (outcome.kind # "ok")])
       /\ ended' = IF outcome.kind = "exc" THEN outcome.exc ELSE outcome.kind
       /\ now' = wake
       /\ raised' = r.exc
       /\ response' = IF r.exc = "" THEN r.ret ELSE response

\* self._rate_limit() and the try block, for both fetch methods.  The request
\* goes out when _rate_limit returns; the time the exchange itself takes
\* passes as ticks after the call.  An entry of issued holds the time of the
\* call, the time the request went out and whether the exchange failed.
fetch(bodies) ==
  \E oversleep \in 0..MaxOversleep, outcome \in Transport(bodies) :
    LET wake == rate_limit(now, last_request_time, oversleep)
        r == request(outcome)
    IN /\ wake <= MaxTime
       /\ last_request_time' = wake
       /\ issued' = Append(issued, [called |-> now, at |-> wake,
                                    failed |-> (outcome.kind # "ok")])
       /\ ended' = IF outcome.kind = "exc" THEN outcome.exc ELSE outcome.kind
       /\ now' = wake
       /\ raised' = r.exc
       /\ response' = IF r.exc = "" THEN r.ret ELSE response

\* ADSBOneClient.get_military_aircraft()
get_military_aircraft(bodies) == fetch(bodies)

\* ADSBOneClient.get_aircraft_by_hex(hex_codes), variant 1 only
get_aircraft_by_hex(bodies) == variant = 1 /\ fetch(bodies)

\* Time passes between two calls.
tick ==
  /\ now < MaxTime
  /\ now' = now + 1
  /\ UNCHANGED <<threads, variant, RG_AVAILABLE, RICH_AVAILABLE, last_request_time, issued,
                 response, raised, ended, _location_cache, geo_log, presidential, seen_hex,
                 matched, database, tracked, pc, tables>>

\* A caller's client.get_military_aircraft()
call_get_military_aircraft ==
  /\ Len(issued) < MaxCalls
  /\ get_military_aircraft(RateBodies)
  /\ UNCHANGED <<threads, variant, RG_AVAILABLE, RICH_AVAILABLE, _location_cache, geo_log,
                 presidential, seen_hex, matched, database, tracked, pc, tables>>

\* A caller's client.get_aircraft_by_hex(hex_codes)
call_get_aircraft_by_hex ==
  /\ Len(issued) < MaxCalls
  /\ get_aircraft_by_hex(RateBodies)
  /\ UNCHANGED <<threads, variant, RG_AVAILABLE, RICH_AVAILABLE, _location_cache, geo_log,
                 presidential, seen_hex, matched, database, tracked, pc, tables>>

\* A caller's get_location(lat, lon)
call_get_location ==
  /\ Len(geo_log) < MaxGeoCalls
  /\ \E args \in GeoArgs, outcome \in GeoOutcomes :
       LET r == get_location(args[1], args[2],
                             [cache |-> _location_cache, log |-> geo_log], outcome)
       IN /\ _location_cache' = r.g.cache
          /\ geo_log' = r.g.log
  /\ UNCHANGED <<threads, variant, RG_AVAILABLE, RICH_AVAILABLE, now, last_request_time, issued,
                 response, raised, ended, presidential, seen_hex, matched, database,
                 tracked, pc, tables>>

\* main (variant 2): database = load_aircraft_database(CSV_PATH);
\* if not database: return
main_load ==
  /\ pc = "load"
  /\ \E csv \in CsvFiles : database' = load_aircraft_database(csv)
  /\ pc' = IF database' = <<>> THEN "done" ELSE "start"
  /\ UNCHANGED <<threads, variant, RG_AVAILABLE, RICH_AVAILABLE, now, last_request_time, issued,
                 response, raised, ended, _location_cache, geo_log, presidential, seen_hex,
                 matched, tracked, tables>>

\* main: response = client.get_military_aircraft()
\*       total_military = len(response.get("ac", []))
\* main ends in a traceback when the fetch raises, or when response is None
\* and response.get raises AttributeError.
main_fetch(bodies) ==
  /\ pc = "start"
  /\ get_military_aircraft(bodies)
  /\ pc' = IF raised' = "" /\ response' # NoneBody THEN "fetched" ELSE "crashed"
  /\ UNCHANGED <<threads, variant, RG_AVAILABLE, RICH_AVAILABLE, _location_cache, geo_log,
                 presidential, seen_hex, matched, database, tracked, tables>>

\* The rg.search outcomes of one pass over aircraft_list, one per track.
\* A track that cannot reach rg.search (no geocoder, or no position) is
\* given RAISES, which is then never looked at.
Outcomes(aircraft_list) ==
  {o \in [1..Len(aircraft_list) -> GeoOutcomes] :
     \A i \in 1..Len(aircraft_list) :
       (~RG_AVAILABLE \/ ~Truthy(Get(aircraft_list[i], "lat", None))
          \/ ~Truthy(Get(aircraft_list[i], "lon", None))) => o[i] = RAISES}

\* main (variant 1): presidential = find_presidential_aircraft(response)
main_find ==
  /\ pc = "fetched"
  /\ variant = 1
  /\ \E outcomes \in Outcomes(Get(response, "ac", <<>>)) :
       LET st == find_presidential_aircraft(
                   response, [cache |-> _location_cache, log |-> geo_log], outcomes)
       IN /\ presidential' = st.presidential
          /\ seen_hex' = st.seen_hex
          /\ matched' = st.matched
          /\ _location_cache' = st.g.cache
          /\ geo_log' = st.g.log
  /\ pc' = "classified"
  /\ UNCHANGED <<threads, variant, RG_AVAILABLE, RICH_AVAILABLE, now, last_request_time, issued,
                 response, raised, ended, database, tracked, tables>>

\* main (variant 2): the loop that builds tracked
main_match ==
  /\ pc = "fetched"
  /\ variant = 2
  /\ \E outcomes \in Outcomes(Get(response, "ac", <<>>)) :
       LET st == match_from(Get(response, "ac", <<>>), 1, database,
                            [tracked |-> <<>>,
                             g |-> [cache |-> _location_cache, log |-> geo_log]],
                            outcomes)
       IN /\ tracked' = st.tracked
          /\ _location_cache' = st.g.cache
          /\ geo_log' = st.g.log
  /\ pc' = "classified"
  /\ UNCHANGED <<threads, variant, RG_AVAILABLE, RICH_AVAILABLE, now, last_request_time, issued,
                 response, raised, ended, presidential, seen_hex, matched, database, tables>>

\* The sample of main: parse_aircraft on each of the first 15 tracks.
RECURSIVE sample_from(_, _, _, _)
sample_from(aircraft_list, i, g, outcomes) ==
  IF i > Len(aircraft_list) \/ i > 15 THEN g
  ELSE sample_from(aircraft_list, i + 1,
                   parse_aircraft(aircraft_list[i], PRESIDENTIAL_AIRCRAFT, g, outcomes[i]).g,
                   outcomes)

\* display_rich(aircraft_list): the list after aircraft_list.sort(...)
display_rich(aircraft_list) ==
  IF aircraft_list = <<>> THEN aircraft_list ELSE list_sort(aircraft_list)

\* main (variant 1): display_rich(presidential), or the sample of military
\* aircraft when nothing was found; display_plain without rich.
main_display_1 ==
  /\ pc = "classified"
  /\ variant = 1
  /\ IF RICH_AVAILABLE /\ presidential = <<>>
     THEN \E outcomes \in Outcomes(Get(response, "ac", <<>>)) :
            LET g == sample_from(Get(response, "ac", <<>>), 1,
                                 [cache |-> _location_cache, log |-> geo_log], outcomes)
            IN /\ _location_cache' = g.cache
               /\ geo_log' = g.log
               /\ presidential' = presidential
     ELSE /\ presidential' = IF RICH_AVAILABLE THEN display_rich(presidential)
                             ELSE presidential
          /\ UNCHANGED <<_location_cache, geo_log>>
  /\ pc' = "done"
  /\ UNCHANGED <<threads, variant, RG_AVAILABLE, RICH_AVAILABLE, now, last_request_time, issued,
                 response, raised, ended, seen_hex, matched, database, tracked, tables>>

\* main (variant 2): with rich and a non-empty tracked,
\* display_government_dictators, display_spy_special_forces and
\* display_military, the last two through display_table, which sorts the
\* filtered list it is given; tracked itself is not reordered.  Without rich
\* tracked is printed as it is.
main_display_2 ==
  /\ pc = "classified"
  /\ variant = 2
  /\ tables' = IF RICH_AVAILABLE /\ tracked # <<>>
               THEN <<govt_of(tracked), display_table(spy_sf_of(tracked)),
                      display_table(military_of(tracked))>>
               ELSE <<>>
  /\ pc' = "done"
  /\ UNCHANGED <<threads, variant, RG_AVAILABLE, RICH_AVAILABLE, now, last_request_time, issued,
                 response, raised, ended, _location_cache, geo_log, presidential, seen_hex,
                 matched, database, tracked>>

\* --------------------------------------------------------- specifications

\* One run of main.
Next ==
  \/ main_load
  \/ main_fetch(Snapshots)
  \/ main_find
  \/ main_match
  \/ main_display_1
  \/ main_display_2

Spec == Init /\ [][Next]_vars

\* One run of main that is not stopped from outside: the interpreter goes on
\* to the next statement as long as there is one.
SpecLive == Spec /\ WF_vars(Next)

\* Fetch calls made one after another on one client, time passing in between.
NextRate ==
  \/ tick
  \/ call_get_military_aircraft
  \/ call_get_aircraft_by_hex

SpecRate == Init /\ [][NextRate]_vars

\* get_location calls made one after another.
NextGeo == call_get_location

SpecGeo == Init /\ [][NextGeo]_vars

\* The tracks whose entries are sorted: none has a position.  ae001f and
\* ae0020 are registered with one country and one description; the others
\* are classified by callsign, SAM for USA, CTM for France.
SortTracks ==
  { [hex |-> <<"a", "e", "0", "0", "1", "f">>, flight |-> <<"A", "F", "1">>],
    [hex |-> <<"a", "e", "0", "0", "2", "0">>, flight |-> <<"A", "F", "1">>],
    [hex |-> <<"0", "0", "0", "0", "0", "1">>, flight |-> <<"F", "I", "N", "1">>],
    [hex |-> <<"0", "0", "0", "0", "0", "2">>, flight |-> <<"C", "T", "M", "1">>],
    [hex |-> <<"0", "0", "0", "0", "0", "3">>, flight |-> <<"S", "A", "M", "7">>],
    [hex |-> <<"0", "0", "0", "0", "0", "4">>, flight |-> <<"C", "T", "M", "1">>] }

\* The catalog of variant 2 for these tracks.
SortCatalog ==
  [exists |-> TRUE,
   rows |-> << ("$ICAO" :> <<"a", "e", "0", "0", "1", "f">>) @@ ("$Operator" :> <<"C", "I", "A">>) @@ ("Category" :> <<"O", "x", "c", "a", "r", "t">>),
               ("$ICAO" :> <<"a", "e", "0", "0", "2", "0">>) @@ ("$Operator" :> <<"C", "I", "A">>) @@ ("Category" :> <<"O", "x", "c", "a", "r", "t">>),
               ("$ICAO" :> <<"0", "0", "0", "0", "0", "1">>) @@ ("$Operator" :> <<"A", "r", "m", "y">>)
                 @@ ("Category" :> <<"S", "p", "e", "c", "i", "a", "l", " ", "F", "o", "r", "c", "e", "s">>),
               ("$ICAO" :> <<"0", "0", "0", "0", "0", "2">>) @@ ("$Operator" :> <<"A", "i", "r", " ", "F", "o", "r", "c", "e">>)
                 @@ ("Category" :> <<"O", "x", "c", "a", "r", "t">>),
               ("$ICAO" :> <<"0", "0", "0", "0", "0", "3">>) @@ ("Category" :> <<"U", "S", "A", "F">>),
               ("$ICAO" :> <<"0", "0", "0", "0", "0", "4">>) @@ ("$Operator" :> <<"C", "r", "o", "w", "n">>)
                 @@ ("Category" :> <<"G", "o", "v", "e", "r", "n", "m", "e", "n", "t", "s">>) >>]

\* main after it has fetched a snapshot of SortTracks at StartTime, without
\* the geocoder; variant 2 has loaded SortCatalog.
InitSort ==
  /\ variant \in {1, 2}
  /\ RG_AVAILABLE = FALSE
  /\ RICH_AVAILABLE \in BOOLEAN
  /\ now = StartTime
  /\ last_request_time = StartTime
  /\ issued = <<[called |-> StartTime, at |-> StartTime, failed |-> FALSE]>>
  /\ \E s \in SeqsUpTo(SortTracks, MaxSort) : response = [ac |-> s]
  /\ raised = ""
  /\ ended = "ok"
  /\ _location_cache = <<>>
  /\ geo_log = <<>>
  /\ presidential = <<>>
  /\ seen_hex = {}
  /\ matched = <<>>
  /\ database = IF variant = 2 THEN load_aircraft_database(SortCatalog) ELSE <<>>
  /\ tracked = <<>>
  /\ tables = <<>>
  /\ pc = "fetched"
  /\ threads = <<>>

\* The classification and the display step of main.
NextSort ==
  \/ main_find
  \/ main_match
  \/ main_display_1
  \/ main_display_2

SpecSort == InitSort /\ [][NextSort]_vars

\* ------------------------------------------------ repeated poll cycles

\* The tracks of the polled snapshots: a registered one, one with a VIP
\* callsign at a position of the same cache key, and one that is not tracked.
PollTracks ==
  { [hex |-> <<"a", "e", "0", "0", "1", "f">>, flight |-> <<"A", "F", "1">>, lat |-> Num(50001), lon |-> Num(14999)],
    [hex |-> <<"a", "b", "c", "1", "2", "3">>, flight |-> <<"F", "A", "F", "7", "7">>, lat |-> Num(50004), lon |-> Num(15001)],
    [hex |-> <<"a", "b", "c", "1", "2", "3">>, flight |-> <<"R", "C", "H", "0", "0", "1">>] }

\* A process of variant 1 with the geocoder installed, before its first cycle.
InitPoll ==
  /\ variant = 1
  /\ RG_AVAILABLE = TRUE
  /\ RICH_AVAILABLE = FALSE
  /\ now = StartTime
  /\ last_request_time = 0
  /\ issued = <<>>
  /\ response = [ac |-> <<>>]
  /\ raised = ""
  /\ ended = ""
  /\ _location_cache = <<>>
  /\ geo_log = <<>>
  /\ presidential = <<>>
  /\ seen_hex = {}
  /\ matched = <<>>
  /\ database = <<>>
  /\ tracked = <<>>
  /\ tables = <<>>
  /\ pc = "classified"
  /\ threads = <<>>

\* The fetch of the next cycle: response = client.get_military_aircraft(),
\* called again in the same process once the last snapshot is classified.
poll_fetch ==
  /\ pc = "classified"
  /\ Len(issued) < MaxPolls
  /\ get_military_aircraft(SeqsUpTo(PollTracks, MaxTracks))
  /\ pc' = IF raised' = "" /\ response' # NoneBody THEN "fetched" ELSE "crashed"
  /\ UNCHANGED <<threads, variant, RG_AVAILABLE, RICH_AVAILABLE, _location_cache, geo_log,
                 presidential, seen_hex, matched, database, tracked, tables>>

\* Poll cycles of one process: fetch, then find_presidential_aircraft.
NextPoll ==
  \/ poll_fetch
  \/ main_find

SpecPoll == InitPoll /\ [][NextPoll]_vars

\* ------------------------------------------- two threads on one client

Threads == 1..NumThreads

\* A client of variant 1 that NumThreads threads are about to call, each one
\* fetch method once.  A thread's record holds where it is in the call (pc),
\* the time it is called at, the time its sleep ends (wake), the time its
\* request went out (at) and the threads whose requests had gone out when it
\* read last_request_time (after).
InitThreads ==
  /\ variant = 1
  /\ RG_AVAILABLE = FALSE
  /\ RICH_AVAILABLE = FALSE
  /\ now = StartTime
  /\ last_request_time = 0
  /\ issued = <<>>
  /\ response = [ac |-> <<>>]
  /\ raised = ""
  /\ ended = ""
  /\ _location_cache = <<>>
  /\ geo_log = <<>>
  /\ presidential = <<>>
  /\ seen_hex = {}
  /\ matched = <<>>
  /\ database = <<>>
  /\ tracked = <<>>
  /\ tables = <<>>
  /\ pc = "start"
  /\ threads = [th \in Threads |->
                  [pc |-> "idle", called |-> 0, wake |-> 0, at |-> 0, after |-> {}]]

\* _rate_limit in a thread, up to the end of its sleep:
\*   elapsed = time.time() - self.last_request_time
\*   if elapsed < self.min_request_interval: time.sleep(...)
t_read(th) ==
  /\ threads[th].pc = "idle"
  /\ \E oversleep \in 0..MaxOversleep :
       threads' = [threads EXCEPT ![th] =
                     [pc |-> "slept", called |-> now,
                      wake |-> rate_limit(now, last_request_time, oversleep),
                      at |-> 0,
                      after |-> {u \in Threads : threads[u].pc = "returned"}]]
  /\ UNCHANGED <<variant, RG_AVAILABLE, RICH_AVAILABLE, now, last_request_time, issued,
                 response, raised, ended, _location_cache, geo_log, presidential,
                 seen_hex, matched, database, tracked, tables, pc>>

\* The rest of the call, when the thread runs again after its sleep:
\* self.last_request_time = time.time(), and the try block with the request.
t_issue(th) ==
  /\ threads[th].pc = "slept"
  /\ now >= threads[th].wake
  /\ \E outcome \in Transport(RateBodies) :
       LET r == request(outcome)
       IN /\ last_request_time' = now
          /\ issued' = Append(issued, [called |-> threads[th].called, at |-> now,
                                       failed |-> (outcome.kind # "ok")])
          /\ ended' = IF outcome.kind = "exc" THEN outcome.exc ELSE outcome.kind
          /\ raised' = r.exc
          /\ response' = IF r.exc = "" THEN r.ret ELSE response
  /\ threads' = [threads EXCEPT ![th].pc = "returned", ![th].at = now]
  /\ UNCHANGED <<variant, RG_AVAILABLE, RICH_AVAILABLE, now, _location_cache, geo_log,
                 presidential, seen_hex, matched, database, tracked, tables, pc>>

\* The threads' calls, interleaved at the sleep, and the passing of time.
NextThreads ==
  \/ \E th \in Threads : t_read(th)
  \/ \E th \in Threads : t_issue(th)
  \/ tick

SpecThreads == InitThreads /\ [][NextThreads]_vars
\* ------------------------------------------------------------- properties

\* The raw tracks of the snapshot main fetched.
snapshot == IF "ac" \in DOMAIN response THEN response.ac ELSE <<>>

\* The positions at which the identifier h occurs in the snapshot, in any
\* letter case.
Occurrences(h) ==
  {k \in DOMAIN snapshot : Lower(Get(snapshot[k], "hex", <<>>)) = h}

Lowest(S) == CHOOSE k \in S : \A l \in S : k <= l

\* The entry e carries the callsign, the position and the kinematic fields
\* of the raw track ac.
DerivedFrom(e, ac) ==
  /\ e.callsign = StrOr(Strip(Get(ac, "flight", <<>>)), NA)
  /\ e.latitude = Get(ac, "lat", None)
  /\ e.longitude = Get(ac, "lon", None)
  /\ e.ground_speed = Get(ac, "gs", None)
  /\ e.on_ground = (Get(ac, "alt_baro", None) = GROUND)
  /\ e.altitude = IF Get(ac, "alt_baro", None) = GROUND THEN Num(0)
                  ELSE Get(ac, "alt_baro", None)

\* The raw track is one the loop emits when it reaches it unseen: its
\* identifier is registered, or its callsign starts with a written prefix.
Qualifies(ac) ==
  \/ \E k \in DOMAIN PRESIDENTIAL_AIRCRAFT_LITERAL :
       PRESIDENTIAL_AIRCRAFT_LITERAL[k][1] = Lower(Get(ac, "hex", <<>>))
  \/ \E k \in DOMAIN VIP_CALLSIGN_PATTERNS_LITERAL :
       StartsWith(Upper(Strip(Get(ac, "flight", <<>>))),
                  VIP_CALLSIGN_PATTERNS_LITERAL[k][1])

\* The country of the lowest-positioned rule of an ordered rule list whose
\* prefix starts the callsign, <<>> if there is none.
FirstRule(rules, callsign) ==
  LET hits == {i \in DOMAIN rules : StartsWith(callsign, rules[i][1])}
  IN IF hits = {} THEN <<>> ELSE rules[Lowest(hits)][2]

\* C1: variant 1: the list returned by find_presidential_aircraft never
\* holds two entries with the same identifier, however often and in whatever
\* letter case the identifier occurs in the snapshot.
NoDuplicateIdentifiers ==
  \A i, j \in DOMAIN presidential :
    presidential[i].hex_code = presidential[j].hex_code => i = j

\* The snapshot holds one identifier twice, in two letter cases, and the
\* returned list holds it once.
DuplicateIdentifierDropped ==
  /\ variant = 1
  /\ pc = "classified"
  /\ Len(snapshot) = 2
  /\ "hex" \in DOMAIN snapshot[1] /\ "hex" \in DOMAIN snapshot[2]
  /\ snapshot[1].hex # snapshot[2].hex
  /\ Lower(snapshot[1].hex) = Lower(snapshot[2].hex)
  /\ Len(presidential) = 1

\* C2, as stated: variant 1: an identifier that occurs several times in one
\* snapshot and is emitted is emitted exactly once, and its entry carries the
\* callsign, position and kinematic fields of the FIRST occurrence of the
\* identifier in the snapshot.
EmittedFromFirstOccurrence ==
  \A i \in DOMAIN presidential :
    LET h == Lower(presidential[i].hex_code)
    IN Cardinality(Occurrences(h)) > 1 =>
         /\ \A j \in DOMAIN presidential :
              Lower(presidential[j].hex_code) = h => j = i
         /\ DerivedFrom(presidential[i], snapshot[Lowest(Occurrences(h))])

\* C2, amended: variant 1: an identifier that occurs several times in one
\* snapshot and is emitted is emitted exactly once, and its entry carries the
\* callsign, position and kinematic fields of the first occurrence that is
\* registered or whose callsign starts with a rule prefix; an earlier
\* occurrence that is neither is dropped without marking the identifier seen.
EmittedFromFirstQualifyingOccurrence ==
  \A i \in DOMAIN presidential :
    LET h == Lower(presidential[i].hex_code)
        qualifying == {k \in Occurrences(h) : Qualifies(snapshot[k])}
    IN Cardinality(Occurrences(h)) > 1 =>
         /\ \A j \in DOMAIN presidential :
              Lower(presidential[j].hex_code) = h => j = i
         /\ qualifying # {}
         /\ DerivedFrom(presidential[i], snapshot[Lowest(qualifying)])

\* The first occurrence of an identifier is dropped and the entry is made
\* from the second.
EmittedFromSecondOccurrence ==
  /\ variant = 1
  /\ pc = "classified"
  /\ Len(snapshot) = 2
  /\ Lower(Get(snapshot[1], "hex", <<>>)) = Lower(Get(snapshot[2], "hex", <<>>))
  /\ ~Qualifies(snapshot[1])
  /\ Len(presidential) = 1
  /\ DerivedFrom(presidential[1], snapshot[2])
  /\ ~DerivedFrom(presidential[1], snapshot[1])

\* C3: variant 1: the entry of a track whose identifier is in
\* PRESIDENTIAL_AIRCRAFT has the country and the description of the registry
\* record, whatever rule its callsign matches, and the callsign patterns are
\* never scanned for such a track.
RegistryTakesPrecedence ==
  /\ \A i \in DOMAIN presidential :
       LET h == Lower(presidential[i].hex_code)
       IN DictHas(PRESIDENTIAL_AIRCRAFT, h) =>
            /\ presidential[i].country = DictAt(PRESIDENTIAL_AIRCRAFT, h).country
            /\ presidential[i].description = DictAt(PRESIDENTIAL_AIRCRAFT, h).description
  /\ \A k \in DOMAIN matched : ~DictHas(PRESIDENTIAL_AIRCRAFT, matched[k].hex)

\* A registered track whose callsign starts with a prefix of another country
\* has been emitted with the country of the registry.
RegisteredTrackWithForeignCallsign ==
  /\ variant = 1
  /\ pc = "classified"
  /\ Len(snapshot) = 1
  /\ DictHas(PRESIDENTIAL_AIRCRAFT, Lower(Get(snapshot[1], "hex", <<>>)))
  /\ FirstRule(VIP_CALLSIGN_PATTERNS_LITERAL,
               Upper(Strip(Get(snapshot[1], "flight", <<>>))))
       \notin {<<>>, presidential[1].country}
  /\ Len(presidential) = 1
  /\ matched = <<>>

\* C4: callsign matching honours rule order: the country the matcher gives a
\* callsign is that of the lowest-positioned rule, in the rule list as it is
\* written, whose prefix starts the trimmed, upper-cased callsign, and none
\* if there is no such rule.
MatcherHonoursRuleOrder ==
  \A k \in DOMAIN matched :
    matched[k].country =
      FirstRule(VIP_CALLSIGN_PATTERNS_LITERAL, Upper(Strip(matched[k].flight)))

\* C5: the prefix FAF is written twice in the rule table, first for France
\* and later for Finland, and the rule written first is the one applied: an
\* unregistered track whose callsign starts with FAF is emitted with country
\* France.
FirstFAFRuleIsAuthoritative ==
  /\ \E i, j \in DOMAIN VIP_CALLSIGN_PATTERNS_LITERAL :
       /\ i < j
       /\ VIP_CALLSIGN_PATTERNS_LITERAL[i] = <<<<"F", "A", "F">>, <<"F", "r", "a", "n", "c", "e">>>>
       /\ VIP_CALLSIGN_PATTERNS_LITERAL[j] = <<<<"F", "A", "F">>, <<"F", "i", "n", "l", "a", "n", "d">>>>
  /\ \A i \in DOMAIN presidential :
       (/\ ~DictHas(PRESIDENTIAL_AIRCRAFT, Lower(presidential[i].hex_code))
        /\ StartsWith(Upper(presidential[i].callsign), <<"F", "A", "F">>))
         => presidential[i].country = <<"F", "r", "a", "n", "c", "e">>

\* C6: of any two consecutive requests of one client, the later goes out at
\* least min_request_interval after the earlier, whichever fetch methods
\* made them.
RequestsAreSpaced ==
  \A i \in 2..Len(issued) :
    issued[i].at - issued[i - 1].at >= min_request_interval

\* A call has arrived before the interval had elapsed and has blocked.
EarlyCallBlocked ==
  \E i \in 2..Len(issued) :
    /\ issued[i].called - issued[i - 1].at < min_request_interval
    /\ issued[i].at > issued[i].called

\* C7: whenever the HTTP exchange of a fetch fails (timeout, non-success
\* status, malformed body), no exception leaves the fetch method and the
\* result has an empty track list ac and a fault description msg.
FetchNeverRaises ==
  ended \notin {"", "ok"} =>
    /\ raised = ""
    /\ "msg" \in DOMAIN response
    /\ "ac" \in DOMAIN response
    /\ response.ac = <<>>

\* C8: when the fetch has returned a fault result, main does not end in a
\* traceback, classification yields an empty list in both variants, and main
\* can go on until the cycle is complete.
FaultYieldsEmptyList ==
  "msg" \in DOMAIN response =>
    /\ pc \in {"fetched", "classified", "done"}
    /\ presidential = <<>>
    /\ tracked = <<>>
    /\ pc # "done" => ENABLED Next

\* A cycle whose fetch returned a fault result is complete.
FaultCycleComplete ==
  /\ "msg" \in DOMAIN response
  /\ database # <<>>
  /\ pc = "done"

\* Two get_location calls whose coordinates round to the same key.
SameKey(a, b) ==
  /\ a.lat # None /\ a.lon # None /\ b.lat # None /\ b.lon # None
  /\ cache_key(a.lat, a.lon) = cache_key(b.lat, b.lon)

GeoCacheAppendOnly ==
  [][\A k \in DOMAIN _location_cache :
       /\ k \in DOMAIN _location_cache'
       /\ _location_cache'[k] = _location_cache[k]]_vars

\* The cache holds two keys, the second stored when the first was there.
TwoKeysCached ==
  /\ Cardinality(DOMAIN _location_cache) = 2
  /\ \E i, j \in DOMAIN geo_log :
       /\ i < j
       /\ ~SameKey(geo_log[i], geo_log[j])
       /\ geo_log[i].searched /\ geo_log[i].cached
       /\ geo_log[j].searched /\ geo_log[j].cached

\* C11: get_location returns the empty string whenever the geocoder is not
\* available, a coordinate is None, or rg.search raises or returns nothing;
\* the exception of rg.search is swallowed and the call returns.
GetLocationDegradesToEmpty ==
  \A i \in DOMAIN geo_log :
    (\/ ~RG_AVAILABLE
     \/ geo_log[i].lat = None
     \/ geo_log[i].lon = None
     \/ geo_log[i].did \in {"raise", "empty"}) => geo_log[i].ret = <<>>

\* With the geocoder available, one call had no longitude, in one rg.search
\* raised and in one it returned nothing.
EveryDegradedLookupSeen ==
  /\ RG_AVAILABLE
  /\ \E i \in DOMAIN geo_log : geo_log[i].lon = None
  /\ \E i \in DOMAIN geo_log : geo_log[i].did = "raise"
  /\ \E i \in DOMAIN geo_log : geo_log[i].did = "empty"

\* The entries of the run: presidential in variant 1, tracked in variant 2.
Entries ==
  {presidential[i] : i \in DOMAIN presidential} \cup {tracked[i] : i \in DOMAIN tracked}

\* C12: an entry built from a track whose alt_baro is the ground sentinel has
\* on_ground true and altitude 0, and an entry with on_ground true was built
\* from such a track: a track at the numeric altitude 0 has on_ground false.
GroundStateAltitude ==
  \A e \in Entries :
    /\ Get(e.raw, "alt_baro", None) = GROUND => (e.on_ground /\ e.altitude = Num(0))
    /\ e.on_ground => Get(e.raw, "alt_baro", None) = GROUND

\* One entry was built from a track on the ground, another from a track at
\* the numeric altitude 0.
GroundAndZeroAltitudeEntries ==
  /\ pc = "classified"
  /\ \E e \in Entries : Get(e.raw, "alt_baro", None) = GROUND /\ e.on_ground
  /\ \E e \in Entries : Get(e.raw, "alt_baro", None) = Num(0) /\ ~e.on_ground

\* The priority tier of an entry of variant 1: 0 for a priority country.
Tier(e) == IF e.country \in PRIORITY_COUNTRIES THEN 0 ELSE 1

\* The entry a may stand in front of the entry b: by tier, then by country,
\* then by description, each ascending.
MayPrecede(a, b) ==
  \/ Tier(a) < Tier(b)
  \/ Tier(a) = Tier(b) /\ StrLess(a.country, b.country)
  \/ Tier(a) = Tier(b) /\ a.country = b.country /\ ~StrLess(b.description, a.description)

InTierCountryDescriptionOrder(list) ==
  \A i, j \in DOMAIN list : i < j => MayPrecede(list[i], list[j])

\* The list b holds the elements of the list a, each as often as a does.
IsPermutation(a, b) ==
  /\ Len(a) = Len(b)
  /\ \A i \in DOMAIN a :
       Cardinality({k \in DOMAIN a : a[k] = a[i]})
         = Cardinality({k \in DOMAIN b : b[k] = a[i]})

\* C13: variant 1: the sort of display_rich leaves every entry of a priority
\* country in front of every other entry, the entries of one tier in
\* ascending country order and those of one country in ascending description
\* order, and the sorted list is a permutation of the list it was given.
DisplayRichSorts ==
  [][(pc = "classified" /\ variant = 1 /\ RICH_AVAILABLE /\ presidential # <<>>)
       => /\ InTierCountryDescriptionOrder(presidential')
          /\ IsPermutation(presidential, presidential')]_vars

\* display_rich has turned a list of a France entry, a Finland entry and a
\* USA entry round.
ThreeEntriesReordered ==
  /\ variant = 1
  /\ RICH_AVAILABLE
  /\ pc = "done"
  /\ Len(snapshot) = 3
  /\ Len(presidential) = 3
  /\ presidential[1].raw = snapshot[3] /\ Tier(presidential[1]) = 0
  /\ presidential[2].raw = snapshot[2] /\ Tier(presidential[2]) = 1
  /\ presidential[3].raw = snapshot[1] /\ Tier(presidential[3]) = 1
  /\ presidential[2].country # presidential[3].country

\* C14: variant 1: the list find_presidential_aircraft returns is in
\* priority tier, country, description order as soon as it is returned, so
\* that display_rich and display_plain show the same order.
ClassifiedListIsOrdered ==
  (variant = 1 /\ pc \in {"classified", "done"})
    => InTierCountryDescriptionOrder(presidential)

\* The position in the snapshot of the raw track the entry was built from,
\* the first if the track is there more than once.
SourcePosition(e) == Lowest({k \in DOMAIN snapshot : snapshot[k] = e.raw})

\* The elements of r can be found in s in the order r has them, each at a
\* place of its own.
IsSubsequence(r, s) ==
  \E p \in [DOMAIN r -> DOMAIN s] :
    /\ \A k \in DOMAIN r : s[p[k]] = r[k]
    /\ \A k, l \in DOMAIN r : k < l => p[k] < p[l]

\* The entries of the list that agree on what same(_, _) compares stand in
\* the order their raw tracks have in the snapshot.
KeepsSourceOrder(list, same(_, _)) ==
  \A i \in DOMAIN list :
    LET like(e) == same(list[i], e)
        class == SelectSeq(list, like)
    IN IsSubsequence([k \in DOMAIN class |-> class[k].raw], snapshot)

SameTierAndCountry(a, b) == Tier(a) = Tier(b) /\ a.country = b.country
SameSortKey(a, b) == SameTierAndCountry(a, b) /\ a.description = b.description
SameCategory(a, b) == a.category = b.category
SameTableKey(a, b) == a.category = b.category /\ a.operator = b.operator

\* C15, as stated: two entries of one tier and one country (in variant 2:
\* of one category) stand in the sorted output in the order of their tracks
\* in the snapshot.
SortKeepsSourceOrderPerCountry ==
  /\ KeepsSourceOrder(presidential, SameTierAndCountry)
  /\ \A t \in DOMAIN tables : KeepsSourceOrder(tables[t], SameCategory)

\* C15, amended: two entries with the same sort key (variant 1: tier,
\* country and description; variant 2: category and operator) stand in the
\* sorted output in the order of their tracks in the snapshot; entries of
\* one country with different descriptions are ordered by description.
SortKeepsSourceOrderOfEqualKeys ==
  /\ KeepsSourceOrder(presidential, SameSortKey)
  /\ \A t \in DOMAIN tables : KeepsSourceOrder(tables[t], SameTableKey)

\* display_rich has moved an entry to the front and left two entries with
\* one sort key, built from different tracks, in the order of the snapshot.
EqualKeysKeptInSourceOrder ==
  /\ variant = 1
  /\ RICH_AVAILABLE
  /\ pc = "done"
  /\ presidential # <<>>
  /\ presidential[1].raw # snapshot[1]
  /\ \E i, j \in DOMAIN presidential :
       /\ i < j
       /\ SameSortKey(presidential[i], presidential[j])
       /\ SourcePosition(presidential[i]) < SourcePosition(presidential[j])

\* ---------------------------------------------------------------- C16

HexDigits ==
  {"0", "1", "2", "3", "4", "5", "6", "7", "8", "9", "a", "b", "c", "d", "e", "f"}

IsHexIdentifier(k) == Len(k) = 6 /\ \A i \in 1..Len(k) : k[i] \in HexDigits

\* C16: every row the catalog load has kept is filed under an identifier of
\* exactly 6 lower-case hexadecimal characters: a row whose identifier has
\* another length or a character that is not a hexadecimal digit is not in
\* the registry.
CatalogKeysAreHexIdentifiers ==
  \A j \in DOMAIN database : IsHexIdentifier(database[j][1])

\* ---------------------------------------------------------------- C17

\* C17: a run of variant 2 whose catalog load left the registry empty does
\* not stop there: it ends only after a snapshot has been requested.
EmptyCatalogRunStillFetches ==
  (variant = 2 /\ database = <<>> /\ pc \in {"done", "crashed"}) => issued # <<>>

\* ---------------------------------------------------------------- C18

\* C18: in variant 2 no two entries of the tracked list carry the same
\* identifier.
TrackedHasNoDuplicateIdentifiers ==
  \A i, j \in DOMAIN tracked :
    i # j => tracked[i].icao_hex # tracked[j].icao_hex

\* ---------------------------------------------------------------- C19

HasCoordinate(ac, k) == Get(ac, k, None) # None

\* C20: with the reverse geocoder's entry point in place, every entry built
\* from a track that carries both lat and lon, zero included, has had
\* get_location called on that position.
PositionedEntryIsGeolocated ==
  \A e \in Entries :
    (HasCoordinate(e.raw, "lat") /\ HasCoordinate(e.raw, "lon")) =>
      \E k \in DOMAIN geo_log :
        /\ geo_log[k].lat = Get(e.raw, "lat", None)
        /\ geo_log[k].lon = Get(e.raw, "lon", None)

\* ---------------------------------------------------------------- C21

\* C21: variant 1: the entry of a track whose identifier is in
\* PRESIDENTIAL_AIRCRAFT has the registration and the type of the registry
\* record, whatever the raw track reports in "r" and "t".
RegistrationAndTypeFromRegistry ==
  \A i \in DOMAIN presidential :
    LET h == Lower(presidential[i].hex_code)
    IN DictHas(PRESIDENTIAL_AIRCRAFT, h) =>
         /\ presidential[i].registration =
              Get(DictAt(PRESIDENTIAL_AIRCRAFT, h), "registration", NA)
         /\ presidential[i].aircraft_type =
              Get(DictAt(PRESIDENTIAL_AIRCRAFT, h), "type", NA)

\* ---------------------------------------------------------------- C22

\* C22: in every classification call of a process that polls, (1) a track
\* emitted by the last call that is still in the snapshot has its identifier
\* emitted again, (2) the geo cache keeps every entry it had, and (3) a
\* position whose key was in the cache before the call is answered from the
\* cache, rg.search not being called.
SeenSetResetCacheKept ==
  [][(pc = "fetched" /\ pc' = "classified") =>
       /\ \A i \in DOMAIN presidential :
            (\E k \in DOMAIN snapshot : snapshot[k] = presidential[i].raw) =>
              \E j \in DOMAIN presidential' :
                presidential'[j].hex_code = presidential[i].hex_code
       /\ \A key \in DOMAIN _location_cache :
            key \in DOMAIN _location_cache'
              /\ _location_cache'[key] = _location_cache[key]
       /\ \A k \in (Len(geo_log) + 1)..Len(geo_log') :
            LET call == geo_log'[k]
            IN (call.lat # None /\ call.lon # None
                  /\ cache_key(call.lat, call.lon) \in DOMAIN _location_cache) =>
                 /\ ~call.searched
                 /\ call.ret = _location_cache[cache_key(call.lat, call.lon)]
    ]_vars

\* The second cycle of a process has classified a one-track snapshot: the
\* track was emitted in the first cycle, where rg.search resolved its
\* position, and is emitted again with the position answered from the cache.
SecondCycleEmitsAgainFromCache ==
  /\ Len(issued) = 2
  /\ pc = "classified"
  /\ Len(snapshot) = 1
  /\ Len(presidential) = 1
  /\ Len(geo_log) = 2
  /\ geo_log[1].did = "found"
  /\ geo_log[1].lat = presidential[1].latitude
  /\ geo_log[1].lon = presidential[1].longitude
  /\ ~geo_log[2].searched
  /\ geo_log[2].ret = geo_log[1].ret
  /\ presidential[1].over_country = geo_log[1].ret

\* ---------------------------------------------------------------- C23

\* C23: variant 1: the seen set a classification call leaves holds exactly
\* the identifiers of the entries it emitted, and no entry was built from a
\* track whose identifier is not registered and whose callsign matches no
\* rule: such a track adds nothing to the list and nothing to the seen set.
SeenSetIsEmittedIdentifiers ==
  /\ seen_hex = {Lower(presidential[i].hex_code) : i \in DOMAIN presidential}
  /\ \A i \in DOMAIN presidential : Qualifies(presidential[i].raw)

\* A snapshot of an untracked track followed by a tracked one of another
\* identifier has been classified: only the second identifier is seen.
UntrackedTrackNotSeen ==
  /\ variant = 1
  /\ pc = "classified"
  /\ Len(snapshot) = 2
  /\ ~Qualifies(snapshot[1])
  /\ Lower(Get(snapshot[1], "hex", <<>>)) # Lower(Get(snapshot[2], "hex", <<>>))
  /\ Len(presidential) = 1
  /\ seen_hex = {Lower(Get(snapshot[2], "hex", <<>>))}

\* ---------------------------------------------------------------- C24

\* C24: variant 2: an entry of tracked is marked is_priority exactly when
\* its category is in TOP_PRIORITY_CATEGORIES or in HIGH_PRIORITY_CATEGORIES.
PriorityIffTopOrHighCategory ==
  \A i \in DOMAIN tracked :
    tracked[i].is_priority <=>
      tracked[i].category \in (TOP_PRIORITY_CATEGORIES \cup HIGH_PRIORITY_CATEGORIES)

\* ---------------------------------------------------------------- C25

Gap(a, b) ==
  IF threads[a].at >= threads[b].at THEN threads[a].at - threads[b].at
  ELSE threads[b].at - threads[a].at

\* C25: with threads sharing a client and no lock, two requests go out less
\* than min_request_interval apart only if each of the two threads read
\* last_request_time before the other wrote it; a call that reads after
\* another call's request went out, as every call of a single thread does,
\* is held back until min_request_interval after that request.
OnlyRacingCallsBreakSpacing ==
  \A a, b \in DOMAIN threads :
    (a # b /\ threads[a].pc = "returned" /\ threads[b].pc = "returned"
       /\ Gap(a, b) < min_request_interval) =>
      (a \notin threads[b].after /\ b \notin threads[a].after)

\* Two threads have both read last_request_time before either wrote it, and
\* their requests went out less than min_request_interval apart.
RacingRequestsTooClose ==
  \E a, b \in DOMAIN threads :
    /\ a # b
    /\ threads[a].pc = "returned"
    /\ threads[b].pc = "returned"
    /\ threads[a].after = {}
    /\ threads[b].after = {}
    /\ Gap(a, b) < min_request_interval

\* ---------------------------------------------------------------- C26

\* C26: the fetch of a run returns and the run goes on to its end: every run
\* of main that is not stopped from outside reaches the end of main.
CycleRunsToCompletion == <>(pc = "done")

\* ---------------------------------------------------------------- C27

\* C27: variant 1: the list find_presidential_aircraft returns is an
\* order-preserving selection from the snapshot: every entry was built from
\* a track whose identifier is registered or whose callsign starts with a
\* rule prefix, the tracks of the entries stand in the snapshot in the order
\* of the entries, and the list is not longer than the snapshot.
ResultIsOrderedSelectionOfSnapshot ==
  (variant = 1 /\ pc = "classified") =>
    /\ \A i \in DOMAIN presidential : Qualifies(presidential[i].raw)
    /\ IsSubsequence([i \in DOMAIN presidential |-> presidential[i].raw], snapshot)
    /\ Len(presidential) <= Len(snapshot)

\* Two different tracks have been emitted in snapshot order, an entry of a
\* non-priority country before an entry of a priority country.
EmittedInSnapshotOrder ==
  /\ variant = 1
  /\ pc = "classified"
  /\ Len(snapshot) = 2
  /\ Len(presidential) = 2
  /\ snapshot[1] # snapshot[2]
  /\ presidential[1].raw = snapshot[1]
  /\ presidential[2].raw = snapshot[2]
  /\ Tier(presidential[1]) > Tier(presidential[2])

\* ---------------------------------------------------------------- C28

LookupFailed(call) == call.did \in {"raise", "empty"}

\* C28: a get_location call in which rg.search raises or returns nothing
\* leaves _location_cache as it was, and the next call with the same key
\* calls rg.search again.
FailedLookupLeavesCacheAlone ==
  /\ [][(Len(geo_log') = Len(geo_log) + 1 /\ LookupFailed(geo_log'[Len(geo_log')]))
          => _location_cache' = _location_cache]_vars
  /\ [](\A k, l \in DOMAIN geo_log :
          (/\ k < l
           /\ LookupFailed(geo_log[k])
           /\ SameKey(geo_log[k], geo_log[l])
           /\ \A m \in (k + 1)..(l - 1) : ~SameKey(geo_log[k], geo_log[m]))
            => geo_log[l].searched)

\* A lookup failed while the cache held another key, and the next call with
\* the failed key searched again and found the country.
FailedKeySearchedAgain ==
  \E k, l \in DOMAIN geo_log :
    /\ k < l
    /\ LookupFailed(geo_log[k])
    /\ SameKey(geo_log[k], geo_log[l])
    /\ \A m \in (k + 1)..(l - 1) : ~SameKey(geo_log[k], geo_log[m])
    /\ geo_log[l].did = "found"
    /\ Cardinality(DOMAIN _location_cache) = 2

\* ---------------------------------------------------------------- C29

\* The positions of the snapshot tracks that have no identifier (hex missing
\* or empty) and a callsign that starts with a rule prefix.
Anonymous == {k \in DOMAIN snapshot : Get(snapshot[k], "hex", <<>>) = <<>>
                                         /\ Qualifies(snapshot[k])}

\* C29: variant 1: of the snapshot tracks without an identifier whose
\* callsigns match a rule, the first is emitted, under the empty identifier,
\* and no other: the list holds one entry with the empty identifier, built
\* from the first such track, if there is such a track and none otherwise.
OnlyFirstAnonymousTrackEmitted ==
  (variant = 1 /\ pc \in {"classified", "done"}) =>
    LET anon == {i \in DOMAIN presidential : presidential[i].hex_code = <<>>}
    IN IF Anonymous = {} THEN anon = {}
       ELSE /\ Cardinality(anon) = 1
            /\ \A i \in anon : presidential[i].raw = snapshot[Lowest(Anonymous)]

\* A snapshot of two different tracks without identifier, both with a
\* matching callsign, has been classified: one entry, from the first.
SecondAnonymousTrackDropped ==
  /\ variant = 1
  /\ pc = "classified"
  /\ Anonymous = {1, 2}
  /\ snapshot[1] # snapshot[2]
  /\ Len(presidential) = 1
  /\ presidential[1].raw = snapshot[1]

\* ---------------------------------------------------------------- C30

\* C30: identifiers are compared without regard to letter case.  Variant 1:
\* a snapshot track whose identifier, lower-cased, is a key of
\* PRESIDENTIAL_AIRCRAFT is represented by an entry with the registry's
\* country, and the tracks whose identifiers differ only in case share one
\* entry.  Variant 2: a snapshot track whose identifier, lower-cased, is a
\* key of the database has an entry with the category of that record.
IdentifierCaseIgnored ==
  (pc \in {"classified", "done"}) =>
    \A k \in DOMAIN snapshot :
      LET h == Lower(Get(snapshot[k], "hex", <<>>))
      IN /\ (variant = 1 /\ DictHas(PRESIDENTIAL_AIRCRAFT, h)) =>
              \E i \in DOMAIN presidential :
                /\ Lower(presidential[i].hex_code) = h
                /\ presidential[i].country = DictAt(PRESIDENTIAL_AIRCRAFT, h).country
         /\ variant = 1 =>
              Cardinality({i \in DOMAIN presidential :
                             Lower(presidential[i].hex_code) = h}) <= 1
         /\ (variant = 2 /\ DictHas(database, h)) =>
              \E i \in DOMAIN tracked :
                /\ tracked[i].raw = snapshot[k]
                /\ tracked[i].category = DictAt(database, h).category

\* A registered identifier came in upper case and then in lower case: the
\* upper-case track matched the registry and the lower-case one was dropped.
UpperCaseIdentifierMatched ==
  /\ variant = 1
  /\ pc = "classified"
  /\ Len(snapshot) = 2
  /\ Get(snapshot[1], "hex", <<>>) # Lower(Get(snapshot[1], "hex", <<>>))
  /\ Get(snapshot[2], "hex", <<>>) = Lower(Get(snapshot[1], "hex", <<>>))
  /\ DictHas(PRESIDENTIAL_AIRCRAFT, Get(snapshot[2], "hex", <<>>))
  /\ Len(presidential) = 1
  /\ presidential[1].raw = snapshot[1]
  /\ presidential[1].country =
       DictAt(PRESIDENTIAL_AIRCRAFT, Get(snapshot[2], "hex", <<>>)).country

====
